---- MODULE Spec2Model ----
(***************************************************************************)
(* Workflow editor: validation engine (src/utils/validation.ts), debounced *)
(* validation and the auto-save controller (src/hooks/useAutoSave.ts) as   *)
(* wired together by WorkflowEditor.                                       *)
(*                                                                         *)
(* Text typed by the user (customName, url, field names, ...) is a         *)
(* sequence of one-character strings, so that trim() and the regular       *)
(* expressions of validation.ts are computed character by character.       *)
(* Identifiers and messages built with template literals are TLA+ strings  *)
(* built with \o.                                                          *)
(*                                                                         *)
(* Two specifications: Spec is the editor (user events, the validation     *)
(* timer, the save timer, the restore dialog, page reloads); HookSpec is   *)
(* useAutoSave alone, rendered with any nodes, edges and isValid.          *)
(*                                                                         *)
(* An event, the render it causes and the effects of that render are one   *)
(* step (React batches the state updates of a handler and runs the effects *)
(* before the next event).  Timers fire at their due time, in the order of *)
(* their due times.  localStorage.setItem may throw (quota); getItem and   *)
(* removeItem do not.                                                      *)
(***************************************************************************)
EXTENDS Integers, Sequences, FiniteSets, TLC

\* ------------------------------------------------------------------------
\* Text helpers (validation.ts lines 19-35)
\* ------------------------------------------------------------------------

\* characters removed by String.prototype.trim that the model uses
Whitespace == {" ", "\t", "\n"}

\* the character class [a-zA-Z0-9]
AlnumChars ==
  {"a","b","c","d","e","f","g","h","i","j","k","l","m","n","o","p","q","r",
   "s","t","u","v","w","x","y","z",
   "A","B","C","D","E","F","G","H","I","J","K","L","M","N","O","P","Q","R",
   "S","T","U","V","W","X","Y","Z",
   "0","1","2","3","4","5","6","7","8","9"}

RECURSIVE TrimStart(_)
TrimStart(s) ==
  IF s = <<>> THEN <<>>
  ELSE IF Head(s) \in Whitespace THEN TrimStart(Tail(s)) ELSE s

RECURSIVE TrimEnd(_)
TrimEnd(s) ==
  IF s = <<>> THEN <<>>
  ELSE IF s[Len(s)] \in Whitespace THEN TrimEnd(SubSeq(s, 1, Len(s) - 1)) ELSE s

\* String.prototype.trim
Trim(s) == TrimEnd(TrimStart(s))

\* the text as one string, for template literals
RECURSIVE Text(_)
Text(s) == IF s = <<>> THEN "" ELSE Head(s) \o Text(Tail(s))

\* d[k], where a key that is not there reads as the empty text (both are
\* falsy in every test the validators make)
TextAt(d, k) == IF k \in DOMAIN d THEN d[k] ELSE <<>>

\* isEmpty: !value || value.trim() === ''
isEmpty(value) == value = <<>> \/ Trim(value) = <<>>

\* meetsMinLength: !!value && value.trim().length >= minLength
meetsMinLength(value, minLength) == value # <<>> /\ Len(Trim(value)) >= minLength

\* isAlphanumeric: /^[a-zA-Z0-9]+$/ on the untrimmed value
isAlphanumeric(value) == value # <<>> /\ \A i \in 1..Len(value) : value[i] \in AlnumChars

\* does text s start with the characters p
StartsWith(s, p) == Len(s) >= Len(p) /\ SubSeq(s, 1, Len(p)) = p

HttpPrefix == <<"h","t","t","p",":","/","/">>
HttpsPrefix == <<"h","t","t","p","s",":","/","/">>

\* /^https?:\/\/.+/ : the prefix, then at least one character other than a
\* line terminator
MatchesUrl(s) ==
  \/ StartsWith(s, HttpPrefix) /\ Len(s) > Len(HttpPrefix) /\ s[Len(HttpPrefix) + 1] # "\n"
  \/ StartsWith(s, HttpsPrefix) /\ Len(s) > Len(HttpsPrefix) /\ s[Len(HttpsPrefix) + 1] # "\n"

\* a URL test on the text as typed, not trimmed
isValidUrl_NoTrim(url) == url # <<>> /\ MatchesUrl(url)

\* isValidUrl: if (!url) return false; regex on url.trim()
isValidUrl(url) == url # <<>> /\ MatchesUrl(Trim(url))

\* ------------------------------------------------------------------------
\* Field validators (validation.ts lines 43-235)
\* ------------------------------------------------------------------------

NodeError(id, message, nodeId, field) ==
  [id |-> id, type |-> "error", message |-> message, nodeId |-> nodeId, field |-> field]

NodeScopedError(id, message, nodeId) ==
  [id |-> id, type |-> "error", message |-> message, nodeId |-> nodeId]

WorkflowError(id, message) ==
  [id |-> id, type |-> "error", message |-> message]

FieldsOf(data) == IF "fields" \in DOMAIN data THEN data.fields ELSE <<>>

\* field rules that report every rule the name or the label fails
FormFieldErrors_EveryRule(node, field, index) ==
  (IF isEmpty(field.name)
     THEN <<NodeError(node.id \o "-field-" \o field.id \o "-name-required",
                      "Field " \o ToString(index) \o ": Name is required",
                      node.id, "field-" \o field.id \o "-name")>>
   ELSE <<>>)
  \o
  (IF ~isAlphanumeric(field.name)
     THEN <<NodeError(node.id \o "-field-" \o field.id \o "-name-alphanumeric",
                      "Field " \o ToString(index) \o ": Name must be alphanumeric (no spaces)",
                      node.id, "field-" \o field.id \o "-name")>>
   ELSE <<>>)
  \o
  (IF ~meetsMinLength(field.name, 2)
     THEN <<NodeError(node.id \o "-field-" \o field.id \o "-name-minLength",
                      "Field " \o ToString(index) \o ": Name must be at least 2 characters",
                      node.id, "field-" \o field.id \o "-name")>>
   ELSE <<>>)
  \o
  (IF isEmpty(field.label)
     THEN <<NodeError(node.id \o "-field-" \o field.id \o "-label-required",
                      "Field " \o ToString(index) \o ": Label is required",
                      node.id, "field-" \o field.id \o "-label")>>
   ELSE <<>>)
  \o
  (IF ~meetsMinLength(field.label, 2)
     THEN <<NodeError(node.id \o "-field-" \o field.id \o "-label-minLength",
                      "Field " \o ToString(index) \o ": Label must be at least 2 characters",
                      node.id, "field-" \o field.id \o "-label")>>
   ELSE <<>>)

\* the errors of field number index of a Form node: name rules, then label rules
FormFieldErrors(node, field, index) ==
  (IF isEmpty(field.name)
     THEN <<NodeError(node.id \o "-field-" \o field.id \o "-name-required",
                      "Field " \o ToString(index) \o ": Name is required",
                      node.id, "field-" \o field.id \o "-name")>>
   ELSE IF ~isAlphanumeric(field.name)
     THEN <<NodeError(node.id \o "-field-" \o field.id \o "-name-alphanumeric",
                      "Field " \o ToString(index) \o ": Name must be alphanumeric (no spaces)",
                      node.id, "field-" \o field.id \o "-name")>>
   ELSE IF ~meetsMinLength(field.name, 2)
     THEN <<NodeError(node.id \o "-field-" \o field.id \o "-name-minLength",
                      "Field " \o ToString(index) \o ": Name must be at least 2 characters",
                      node.id, "field-" \o field.id \o "-name")>>
   ELSE <<>>)
  \o
  (IF isEmpty(field.label)
     THEN <<NodeError(node.id \o "-field-" \o field.id \o "-label-required",
                      "Field " \o ToString(index) \o ": Label is required",
                      node.id, "field-" \o field.id \o "-label")>>
   ELSE IF ~meetsMinLength(field.label, 2)
     THEN <<NodeError(node.id \o "-field-" \o field.id \o "-label-minLength",
                      "Field " \o ToString(index) \o ": Label must be at least 2 characters",
                      node.id, "field-" \o field.id \o "-label")>>
   ELSE <<>>)

RECURSIVE AllFormFieldErrors(_, _, _)
AllFormFieldErrors(node, fields, index) ==
  IF index > Len(fields) THEN <<>>
  ELSE FormFieldErrors(node, fields[index], index) \o AllFormFieldErrors(node, fields, index + 1)

validateFormNode(node) ==
  LET data == node.data
      customName == TextAt(data, "customName")
      fields == FieldsOf(data)
  IN (IF isEmpty(customName)
        THEN <<NodeError(node.id \o "-customName-required", "Form name is required",
                         node.id, "customName")>>
      ELSE IF ~meetsMinLength(customName, 3)
        THEN <<NodeError(node.id \o "-customName-minLength",
                         "Form name must be at least 3 characters", node.id, "customName")>>
      ELSE <<>>)
     \o
     (IF Len(fields) = 0
        THEN <<NodeError(node.id \o "-fields-empty", "Form must have at least one field",
                         node.id, "fields")>>
      ELSE AllFormFieldErrors(node, fields, 1))

\* the operator of a Conditional node; "" when it is missing (falsy)
OperatorOf(data) == IF "operator" \in DOMAIN data THEN data.operator ELSE ""

\* a validator that asks for a value only once an operator is chosen
validateConditionalNode_ValueWithoutOperator(node) ==
  LET data == node.data
      customName == TextAt(data, "customName")
  IN (IF isEmpty(customName)
        THEN <<NodeError(node.id \o "-customName-required", "Condition name is required",
                         node.id, "customName")>>
      ELSE IF ~meetsMinLength(customName, 3)
        THEN <<NodeError(node.id \o "-customName-minLength",
                         "Condition name must be at least 3 characters", node.id, "customName")>>
      ELSE <<>>)
     \o
     (IF isEmpty(TextAt(data, "fieldToEvaluate"))
        THEN <<NodeError(node.id \o "-fieldToEvaluate-required", "Field to evaluate is required",
                         node.id, "fieldToEvaluate")>>
      ELSE <<>>)
     \o
     (IF OperatorOf(data) = ""
        THEN <<NodeError(node.id \o "-operator-required", "Operator is required",
                         node.id, "operator")>>
      ELSE <<>>)
     \o
     (IF OperatorOf(data) \notin {"is_empty", ""} /\ isEmpty(TextAt(data, "value"))
        THEN <<NodeError(node.id \o "-value-required", "Value is required for this operator",
                         node.id, "value")>>
      ELSE <<>>)

validateConditionalNode(node) ==
  LET data == node.data
      customName == TextAt(data, "customName")
  IN (IF isEmpty(customName)
        THEN <<NodeError(node.id \o "-customName-required", "Condition name is required",
                         node.id, "customName")>>
      ELSE IF ~meetsMinLength(customName, 3)
        THEN <<NodeError(node.id \o "-customName-minLength",
                         "Condition name must be at least 3 characters", node.id, "customName")>>
      ELSE <<>>)
     \o
     (IF isEmpty(TextAt(data, "fieldToEvaluate"))
        THEN <<NodeError(node.id \o "-fieldToEvaluate-required", "Field to evaluate is required",
                         node.id, "fieldToEvaluate")>>
      ELSE <<>>)
     \o
     (IF OperatorOf(data) = ""
        THEN <<NodeError(node.id \o "-operator-required", "Operator is required",
                         node.id, "operator")>>
      ELSE <<>>)
     \o
     (IF OperatorOf(data) # "is_empty" /\ isEmpty(TextAt(data, "value"))
        THEN <<NodeError(node.id \o "-value-required", "Value is required for this operator",
                         node.id, "value")>>
      ELSE <<>>)

\* the method of an API node; "" when it is missing (falsy)
MethodOf(data) == IF "method" \in DOMAIN data THEN data.method ELSE ""

validateApiNode(node) ==
  LET data == node.data
      url == TextAt(data, "url")
  IN (IF isEmpty(url)
        THEN <<NodeError(node.id \o "-url-required", "API URL is required", node.id, "url")>>
      ELSE IF ~isValidUrl(url)
        THEN <<NodeError(node.id \o "-url-invalid", "URL must start with http:// or https://",
                         node.id, "url")>>
      ELSE <<>>)
     \o
     (IF MethodOf(data) = ""
        THEN <<NodeError(node.id \o "-method-required", "HTTP method is required",
                         node.id, "method")>>
      ELSE <<>>)

\* ------------------------------------------------------------------------
\* Structure validator (validation.ts lines 246-385)
\* ------------------------------------------------------------------------

NodesOfType(nodes, t) == LET Test(n) == n.type = t IN SelectSeq(nodes, Test)

\* a filter that takes the End node for a work node
WorkNodes_KeepsEnd(nodes) == LET Test(n) == n.type # "start" IN SelectSeq(nodes, Test)

WorkNodes(nodes) == LET Test(n) == n.type # "start" /\ n.type # "end" IN SelectSeq(nodes, Test)

\* node.data.customName || node.data.label
NameOrLabel(data) ==
  IF TextAt(data, "customName") # <<>> THEN Text(data.customName)
  ELSE IF "label" \in DOMAIN data THEN data.label ELSE "undefined"

\* node.data.customName || node.data.label || `${node.type} node`
NodeName(node) ==
  IF TextAt(node.data, "customName") # <<>> THEN Text(node.data.customName)
  ELSE IF "label" \in DOMAIN node.data /\ node.data.label # "" THEN node.data.label
  ELSE node.type \o " node"

\* a search that is content with any edge out of the node
HasRoute_AnyHandle(edges, nodeId, handle) ==
  \E i \in 1..Len(edges) : edges[i].source = nodeId

HasRoute(edges, nodeId, handle) ==
  \E i \in 1..Len(edges) : edges[i].source = nodeId /\ edges[i].sourceHandle = handle

\* a check of the TRUE route only
ConditionalRouteErrors_TrueOnly(node, edges) ==
  IF ~HasRoute(edges, node.id, "true")
    THEN <<NodeScopedError(node.id \o "-route-true-missing",
             "Conditional \"" \o NameOrLabel(node.data) \o "\" is missing TRUE route connection",
             node.id)>>
    ELSE <<>>

ConditionalRouteErrors(node, edges) ==
  (IF ~HasRoute(edges, node.id, "true")
     THEN <<NodeScopedError(node.id \o "-route-true-missing",
              "Conditional \"" \o NameOrLabel(node.data) \o "\" is missing TRUE route connection",
              node.id)>>
   ELSE <<>>)
  \o
  (IF ~HasRoute(edges, node.id, "false")
     THEN <<NodeScopedError(node.id \o "-route-false-missing",
              "Conditional \"" \o NameOrLabel(node.data) \o "\" is missing FALSE route connection",
              node.id)>>
   ELSE <<>>)

RECURSIVE AllConditionalRouteErrors(_, _)
AllConditionalRouteErrors(conditionalNodes, edges) ==
  IF conditionalNodes = <<>> THEN <<>>
  ELSE ConditionalRouteErrors(Head(conditionalNodes), edges)
         \o AllConditionalRouteErrors(Tail(conditionalNodes), edges)

\* outgoingEdges.forEach: add every target not yet reached, and enqueue it
RECURSIVE VisitOutgoing(_, _)
VisitOutgoing(outgoingEdges, st) ==
  IF outgoingEdges = <<>> THEN st
  ELSE LET edge == Head(outgoingEdges)
       IN IF edge.target \in st.reachable
            THEN VisitOutgoing(Tail(outgoingEdges), st)
            ELSE VisitOutgoing(Tail(outgoingEdges),
                   [reachable |-> st.reachable \cup {edge.target},
                    queue |-> Append(st.queue, edge.target),
                    enqueued |-> Append(st.enqueued, edge.target)])

\* while (queue.length > 0): the traversal from Start; enqueued lists every
\* id ever put on the queue
RECURSIVE ForwardSearch(_, _)
ForwardSearch(edges, st) ==
  IF st.queue = <<>> THEN st
  ELSE LET currentId == Head(st.queue)
           Test(e) == e.source = currentId
           outgoingEdges == SelectSeq(edges, Test)
       IN ForwardSearch(edges,
            VisitOutgoing(outgoingEdges, [st EXCEPT !.queue = Tail(st.queue)]))

\* a traversal that stops at the targets of the edges out of Start
ReachableFromStart_DirectOnly(startId, edges) ==
  LET Test(e) == e.source = startId
  IN VisitOutgoing(SelectSeq(edges, Test),
       [reachable |-> {startId}, queue |-> <<>>, enqueued |-> <<startId>>])

ReachableFromStart(startId, edges) ==
  ForwardSearch(edges, [reachable |-> {startId}, queue |-> <<startId>>,
                        enqueued |-> <<startId>>])

\* a report of the unreached nodes that spares the End node
RECURSIVE OrphanErrors_SparesEnd(_, _, _)
OrphanErrors_SparesEnd(nodes, reachableNodes, startId) ==
  IF nodes = <<>> THEN <<>>
  ELSE LET node == Head(nodes)
       IN (IF node.id \notin reachableNodes /\ node.id # startId /\ node.type # "end"
             THEN <<NodeScopedError(node.id \o "-not-reachable",
                      "\"" \o NodeName(node) \o "\" is not reachable from Start block",
                      node.id)>>
           ELSE <<>>)
          \o OrphanErrors_SparesEnd(Tail(nodes), reachableNodes, startId)

RECURSIVE OrphanErrors(_, _, _)
OrphanErrors(nodes, reachableNodes, startId) ==
  IF nodes = <<>> THEN <<>>
  ELSE LET node == Head(nodes)
       IN (IF node.id \notin reachableNodes /\ node.id # startId
             THEN <<NodeScopedError(node.id \o "-not-reachable",
                      "\"" \o NodeName(node) \o "\" is not reachable from Start block",
                      node.id)>>
           ELSE <<>>)
          \o OrphanErrors(Tail(nodes), reachableNodes, startId)

\* connectivity checks that stop after the two checks of Start and End
ConnectivityErrors_NoTraversal(nodes, edges, startNode, endNode) ==
  (IF ~(\E i \in 1..Len(edges) : edges[i].source = startNode.id) /\ Len(nodes) > 1
     THEN <<NodeScopedError("workflow-start-no-outgoing",
              "Start block has no outgoing connections", startNode.id)>>
   ELSE <<>>)
  \o
  (IF ~(\E i \in 1..Len(edges) : edges[i].target = endNode.id) /\ Len(nodes) > 1
     THEN <<NodeScopedError("workflow-end-no-incoming",
              "End block has no incoming connections", endNode.id)>>
   ELSE <<>>)

ConnectivityErrors(nodes, edges, startNode, endNode) ==
  (IF ~(\E i \in 1..Len(edges) : edges[i].source = startNode.id) /\ Len(nodes) > 1
     THEN <<NodeScopedError("workflow-start-no-outgoing",
              "Start block has no outgoing connections", startNode.id)>>
   ELSE <<>>)
  \o
  (IF ~(\E i \in 1..Len(edges) : edges[i].target = endNode.id) /\ Len(nodes) > 1
     THEN <<NodeScopedError("workflow-end-no-incoming",
              "End block has no incoming connections", endNode.id)>>
   ELSE <<>>)
  \o
  OrphanErrors(nodes, ReachableFromStart(startNode.id, edges).reachable, startNode.id)

\* a structure validator that does not tell how many Start nodes it found
validateWorkflowStructure_CountNotTold(nodes, edges) ==
  LET startNodes == NodesOfType(nodes, "start")
      endNodes == NodesOfType(nodes, "end")
      workNodes == WorkNodes(nodes)
  IN (IF Len(nodes) > 0 /\ Len(startNodes) = 1 /\ Len(endNodes) = 1 /\ Len(workNodes) = 0
        THEN <<WorkflowError("workflow-no-work-nodes",
                 "Workflow must contain at least one Form, API, or Conditional block between Start and End")>>
      ELSE <<>>)
     \o
     (IF Len(startNodes) = 0
        THEN <<WorkflowError("workflow-no-start", "Workflow must have exactly one Start block")>>
      ELSE IF Len(startNodes) > 1
        THEN <<WorkflowError("workflow-multiple-starts",
                 "Workflow has several Start blocks, but must have exactly one")>>
      ELSE <<>>)
     \o
     (IF Len(endNodes) = 0
        THEN <<WorkflowError("workflow-no-end", "Workflow must have exactly one End block")>>
      ELSE IF Len(endNodes) > 1
        THEN <<WorkflowError("workflow-multiple-ends",
                 "Workflow has " \o ToString(Len(endNodes))
                   \o " End blocks, but must have exactly one")>>
      ELSE <<>>)
     \o
     AllConditionalRouteErrors(NodesOfType(nodes, "conditional"), edges)
     \o
     (IF Len(startNodes) = 1 /\ Len(endNodes) = 1
        THEN ConnectivityErrors(nodes, edges, startNodes[1], endNodes[1])
      ELSE <<>>)

\* a structure validator that checks connectivity from the first Start to the
\* first End whenever there are any
validateWorkflowStructure_ConnectivityAlways(nodes, edges) ==
  LET startNodes == NodesOfType(nodes, "start")
      endNodes == NodesOfType(nodes, "end")
      workNodes == WorkNodes(nodes)
  IN (IF Len(nodes) > 0 /\ Len(startNodes) = 1 /\ Len(endNodes) = 1 /\ Len(workNodes) = 0
        THEN <<WorkflowError("workflow-no-work-nodes",
                 "Workflow must contain at least one Form, API, or Conditional block between Start and End")>>
      ELSE <<>>)
     \o
     (IF Len(startNodes) = 0
        THEN <<WorkflowError("workflow-no-start", "Workflow must have exactly one Start block")>>
      ELSE IF Len(startNodes) > 1
        THEN <<WorkflowError("workflow-multiple-starts",
                 "Workflow has " \o ToString(Len(startNodes))
                   \o " Start blocks, but must have exactly one")>>
      ELSE <<>>)
     \o
     (IF Len(endNodes) = 0
        THEN <<WorkflowError("workflow-no-end", "Workflow must have exactly one End block")>>
      ELSE IF Len(endNodes) > 1
        THEN <<WorkflowError("workflow-multiple-ends",
                 "Workflow has " \o ToString(Len(endNodes))
                   \o " End blocks, but must have exactly one")>>
      ELSE <<>>)
     \o
     AllConditionalRouteErrors(NodesOfType(nodes, "conditional"), edges)
     \o
     (IF Len(startNodes) >= 1 /\ Len(endNodes) >= 1
        THEN ConnectivityErrors(nodes, edges, startNodes[1], endNodes[1])
      ELSE <<>>)

validateWorkflowStructure(nodes, edges) ==
  LET startNodes == NodesOfType(nodes, "start")
      endNodes == NodesOfType(nodes, "end")
      workNodes == WorkNodes(nodes)
  IN (IF Len(nodes) > 0 /\ Len(startNodes) = 1 /\ Len(endNodes) = 1 /\ Len(workNodes) = 0
        THEN <<WorkflowError("workflow-no-work-nodes",
                 "Workflow must contain at least one Form, API, or Conditional block between Start and End")>>
      ELSE <<>>)
     \o
     (IF Len(startNodes) = 0
        THEN <<WorkflowError("workflow-no-start", "Workflow must have exactly one Start block")>>
      ELSE IF Len(startNodes) > 1
        THEN <<WorkflowError("workflow-multiple-starts",
                 "Workflow has " \o ToString(Len(startNodes))
                   \o " Start blocks, but must have exactly one")>>
      ELSE <<>>)
     \o
     (IF Len(endNodes) = 0
        THEN <<WorkflowError("workflow-no-end", "Workflow must have exactly one End block")>>
      ELSE IF Len(endNodes) > 1
        THEN <<WorkflowError("workflow-multiple-ends",
                 "Workflow has " \o ToString(Len(endNodes))
                   \o " End blocks, but must have exactly one")>>
      ELSE <<>>)
     \o
     AllConditionalRouteErrors(NodesOfType(nodes, "conditional"), edges)
     \o
     (IF Len(startNodes) = 1 /\ Len(endNodes) = 1
        THEN ConnectivityErrors(nodes, edges, startNodes[1], endNodes[1])
      ELSE <<>>)

\* ------------------------------------------------------------------------
\* Orchestrator (validation.ts lines 390-418)
\* ------------------------------------------------------------------------

NodeErrors(node) ==
  CASE node.type = "form" -> validateFormNode(node)
    [] node.type = "conditional" -> validateConditionalNode(node)
    [] node.type = "api" -> validateApiNode(node)
    [] OTHER -> <<>>

RECURSIVE AllNodeErrors(_)
AllNodeErrors(nodes) ==
  IF nodes = <<>> THEN <<>> ELSE NodeErrors(Head(nodes)) \o AllNodeErrors(Tail(nodes))

\* an orchestrator that answers for the structure only
validateWorkflow_StructureDecides(nodes, edges) ==
  LET allErrors == AllNodeErrors(nodes) \o validateWorkflowStructure(nodes, edges)
  IN [isValid |-> Len(validateWorkflowStructure(nodes, edges)) = 0, errors |-> allErrors]

validateWorkflow(nodes, edges) ==
  LET allErrors == AllNodeErrors(nodes) \o validateWorkflowStructure(nodes, edges)
  IN [isValid |-> Len(allErrors) = 0, errors |-> allErrors]

\* ------------------------------------------------------------------------
\* Bounds of the model
\* ------------------------------------------------------------------------

\* number of editing events of the user (blocks added, connections drawn,
\* nodes and edges deleted, nodes clicked or dragged, node data changed); after
\* a restore, the events it takes to put that workflow on the canvas count as used
MaxEdits == 6
\* number of nodes on the canvas
MaxNodes == 3
\* number of edges on the canvas
MaxEdges == 2
\* how many times the component renders the hook with new inputs (HookSpec)
MaxRenders == 3
\* the clock stops here
MaxTime == 3000
\* longest stretch of time that passes in one step of the clock
Quantum == 2000

\* ------------------------------------------------------------------------
\* Program constants
\* ------------------------------------------------------------------------

\* useAutoSave.ts line 146
DEBOUNCE_DELAY == 2000
\* SaveStatusIndicator.tsx line 217 (WorkflowEditor), useDebouncedValidation.ts line 19
VALIDATION_DELAY == 300

\* a handle without an id: Connection.sourceHandle / targetHandle is null
Null == "null"

\* ------------------------------------------------------------------------
\* Reachable fields (getReachableFields.test.ts lines 179-213)
\* ------------------------------------------------------------------------

\* for (const edge of incomingEdges): add every source not yet reached, and
\* enqueue it; order is the insertion order of the Set
RECURSIVE VisitIncoming(_, _)
VisitIncoming(incomingEdges, st) ==
  IF incomingEdges = <<>> THEN st
  ELSE LET edge == Head(incomingEdges)
       IN IF edge.source \in st.reachableNodeIds
            THEN VisitIncoming(Tail(incomingEdges), st)
            ELSE VisitIncoming(Tail(incomingEdges),
                   [reachableNodeIds |-> st.reachableNodeIds \cup {edge.source},
                    order |-> Append(st.order, edge.source),
                    queue |-> Append(st.queue, edge.source)])

\* while (queue.length > 0): the traversal against the edges
RECURSIVE BackwardSearch(_, _)
BackwardSearch(edges, st) ==
  IF st.queue = <<>> THEN st
  ELSE LET currentId == Head(st.queue)
           Test(e) == e.target = currentId
           incomingEdges == SelectSeq(edges, Test)
       IN BackwardSearch(edges,
            VisitIncoming(incomingEdges, [st EXCEPT !.queue = Tail(st.queue)]))

\* for (const field of formData.fields): push the names that are truthy and
\* not yet there
RECURSIVE PushFieldNames(_, _)
PushFieldNames(fields, fieldNames) ==
  IF fields = <<>> THEN fieldNames
  ELSE LET name == TextAt(Head(fields), "name")
       IN PushFieldNames(Tail(fields),
            IF name # <<>> /\ ~(\E k \in 1..Len(fieldNames) : fieldNames[k] = name)
              THEN Append(fieldNames, name)
              ELSE fieldNames)

\* for (const id of reachableNodeIds): the fields of the node found, when it
\* is a Form node that has fields
RECURSIVE CollectFieldNames(_, _, _)
CollectFieldNames(ids, nodes, fieldNames) ==
  IF ids = <<>> THEN fieldNames
  ELSE LET Test(n) == n.id = Head(ids)
           found == SelectSeq(nodes, Test)
       IN CollectFieldNames(Tail(ids), nodes,
            IF found # <<>> /\ found[1].type = "form" /\ "fields" \in DOMAIN found[1].data
              THEN PushFieldNames(found[1].data.fields, fieldNames)
              ELSE fieldNames)

\* a resolver that looks at the edges into the node asked for, and no further
getReachableFields_ParentsOnly(nodeId, nodes, edges) ==
  LET Test(e) == e.target = nodeId
  IN CollectFieldNames(
       VisitIncoming(SelectSeq(edges, Test),
         [reachableNodeIds |-> {}, order |-> <<>>, queue |-> <<>>]).order,
       nodes, <<>>)

\* a resolver that pushes every truthy name it meets
getReachableFields_KeepsDuplicates(nodeId, nodes, edges) ==
  LET order == BackwardSearch(edges, [reachableNodeIds |-> {}, order |-> <<>>,
                                      queue |-> <<nodeId>>]).order
      Names(node) ==
        LET Named(f) == TextAt(f, "name") # <<>>
            kept == SelectSeq(FieldsOf(node.data), Named)
        IN [k \in 1..Len(kept) |-> kept[k].name]
      RECURSIVE All(_)
      All(ids) ==
        IF ids = <<>> THEN <<>>
        ELSE LET Test(n) == n.id = Head(ids)
                 found == SelectSeq(nodes, Test)
             IN (IF found # <<>> /\ found[1].type = "form" THEN Names(found[1]) ELSE <<>>)
                \o All(Tail(ids))
  IN All(order)

getReachableFields(nodeId, nodes, edges) ==
  CollectFieldNames(
    BackwardSearch(edges, [reachableNodeIds |-> {}, order |-> <<>>,
                           queue |-> <<nodeId>>]).order,
    nodes, <<>>)

\* ------------------------------------------------------------------------
\* State
\* ------------------------------------------------------------------------

VARIABLES
  nodes,              \* WorkflowEditor: useNodesState
  edges,              \* WorkflowEditor: useEdgesState
  validationErrors,   \* WorkflowEditor: useState<ValidationError[]>
  isWorkflowValid,    \* WorkflowEditor: useState(false), the isValid given to useAutoSave
  validationTimers,   \* pending timers of the validation effect, oldest first
  validationTimeoutId,\* the timeoutId the effect's cleanup holds: "null", "last" or "dead"
  savedWorkflowData,  \* WorkflowEditor: record found at mount, <<>> or <<record>>
  showRestoreDialog,  \* WorkflowEditor: useState(false)
  saveStatus,         \* useAutoSave: 'idle' | 'saving' | 'saved' | 'error'
  lastSaved,          \* useAutoSave: Date | null, <<>> or <<instant>>
  saveTimers,         \* pending timers of the save effect, oldest first
  saveTimeoutRef,     \* useAutoSave: saveTimeoutRef.current: "null", "last" or "dead"
  nodesRef,           \* useAutoSave: nodesRef.current
  edgesRef,           \* useAutoSave: edgesRef.current
  localStorage,       \* the item under AUTOSAVE_KEY: <<>> or <<item>>
  now,                \* the clock (ms)
  nextId,             \* number of ids getId has handed out
  edits,              \* number of editing events so far
  restored,           \* the item the canvas was restored from and not edited since, or <<>>
  step,               \* what the last step did (history, read by the properties only)
  suggestions         \* the last answer of getReachableFields: the node asked for, the names

vars == <<nodes, edges, validationErrors, isWorkflowValid, validationTimers,
          validationTimeoutId, savedWorkflowData, showRestoreDialog, saveStatus,
          lastSaved, saveTimers, saveTimeoutRef, nodesRef, edgesRef, localStorage,
          now, nextId, edits, restored, step, suggestions>>

\* no field names have been asked for
NoSuggestions == [nodeId |-> "null", fieldNames |-> <<>>]

\* ------------------------------------------------------------------------
\* JSON and storage
\* ------------------------------------------------------------------------

\* {...a, ...b}
Spread(a, b) == [k \in DOMAIN a \cup DOMAIN b |-> IF k \in DOMAIN b THEN b[k] ELSE a[k]]

\* the entries of node data whose value is a function (typeof v === 'function'):
\* the only one the editor ever attaches is onDelete (handleAddBlock)
IsFunctionEntry(k) == k = "onDelete"

WithoutFunctions(data) == [k \in {j \in DOMAIN data : ~IsFunctionEntry(j)} |-> data[k]]

Restrict(r, keys) == [k \in (DOMAIN r \cap keys) |-> r[k]]

\* JSON.parse(JSON.stringify(nodes)): function-valued entries are dropped,
\* everything else survives
JsonNodes(ns) == [i \in 1..Len(ns) |-> [ns[i] EXCEPT !.data = WithoutFunctions(@)]]

\* edges carry no function values
JsonEdges(es) == es

\* new Date(t).toISOString(): a text; the empty text is <<>>
toISOString(t) == <<t>>

\* new Date(isoText)
DateOf(iso) == <<iso[1]>>

\* JSON.stringify(workflowData), as the item setItem stores
StringifyWorkflow(ns, es, t) ==
  [kind |-> "json",
   value |-> [nodes |-> JsonNodes(ns), edges |-> JsonEdges(es), timestamp |-> toISOString(t)]]

\* a test that forgets the timestamp
Falsy_IgnoresTimestamp(data, k) == k # "timestamp" /\ k \notin DOMAIN data

\* a test for emptiness in place of the test for falsiness: an empty array
\* counts as missing
Falsy_EmptyArrayIsMissing(data, k) == k \notin DOMAIN data \/ data[k] = <<>>

\* !data.nodes || !data.edges || !data.timestamp: a missing key is undefined,
\* an empty text is falsy, an array is truthy even when empty
Falsy(data, k) == k \notin DOMAIN data \/ (k = "timestamp" /\ data[k] = <<>>)

\* The item under the key is "" (kind "empty"), a text that is not JSON (kind
\* "text"), the JSON text null (kind "null"), or the JSON text of an object
\* (kind "json", with the object as value; an array or a number reads as an
\* object without the three keys).

\* the try block of loadSavedWorkflow (useAutoSave.ts lines 256-268): result
\* is <<>> for null, console lists what was reported, threw says that
\* JSON.parse, or the read of a property of null, threw
TryLoadSavedWorkflow(store) ==
  IF store = <<>> \/ store[1].kind = "empty"
    THEN [result |-> <<>>, console |-> <<>>, threw |-> FALSE]
  ELSE IF store[1].kind # "json"
    THEN [result |-> <<>>, console |-> <<>>, threw |-> TRUE]
  ELSE LET data == store[1].value
       IN IF Falsy(data, "nodes") \/ Falsy(data, "edges") \/ Falsy(data, "timestamp")
            THEN [result |-> <<>>, console |-> <<"warn">>, threw |-> FALSE]
            ELSE [result |-> <<data>>, console |-> <<>>, threw |-> FALSE]

\* the loader without its catch block
loadSavedWorkflow_NoCatch(store) == TryLoadSavedWorkflow(store)

\* a loader that takes a missing item for a failure
loadSavedWorkflow_AbsentIsError(store) ==
  LET tried == TryLoadSavedWorkflow(store)
  IN IF tried.threw \/ store = <<>>
       THEN [result |-> <<>>, console |-> <<"error">>, threw |-> FALSE]
       ELSE tried

\* loadSavedWorkflow (useAutoSave.ts lines 254-273): the try block, and the
\* catch (lines 269-272) that reports the error and returns null
loadSavedWorkflow(store) ==
  LET tried == TryLoadSavedWorkflow(store)
  IN IF tried.threw
       THEN [result |-> <<>>, console |-> <<"error">>, threw |-> FALSE]
       ELSE tried

NodeCompareKeys == {"id", "type", "position", "data"}
EdgeCompareKeys == {"id", "source", "target", "sourceHandle", "targetHandle", "label"}

\* the node as it is, functions and all
serializeNode_KeepsFunctions(n) == [k \in (DOMAIN n \cap NodeCompareKeys) |-> n[k]]

serializeNode(n) ==
  [k \in (DOMAIN n \cap NodeCompareKeys) |->
     IF k = "data" THEN WithoutFunctions(n[k]) ELSE n[k]]

serializeEdge(e) == Restrict(e, EdgeCompareKeys)

\* serialize (useAutoSave.ts lines 158-174); two serialisations are the same
\* text exactly when they are the same structure
serialize(ns, es) ==
  [nodes |-> [i \in 1..Len(ns) |-> serializeNode(ns[i])],
   edges |-> [i \in 1..Len(es) |-> serializeEdge(es[i])]]

\* a comparison of the arrays themselves, which are never the same objects
areWorkflowsEqual_ByIdentity(nodes1, edges1, nodes2, edges2) == FALSE

areWorkflowsEqual(nodes1, edges1, nodes2, edges2) ==
  IF Len(nodes1) # Len(nodes2) \/ Len(edges1) # Len(edges2) THEN FALSE
  ELSE serialize(nodes1, edges1) = serialize(nodes2, edges2)

\* ------------------------------------------------------------------------
\* Timers.  A timer handle is "null" (no timer was set), "last" (the newest
\* pending timer of its kind) or "dead" (a timer that has fired already;
\* clearTimeout on it does nothing).
\* ------------------------------------------------------------------------

\* a clearTimeout that leaves the timer pending
ClearTimeout_LeavesTheTimer(handle, timers) == timers

\* clearTimeout(handle)
ClearTimeout(handle, timers) ==
  IF handle = "last" /\ timers # <<>> THEN SubSeq(timers, 1, Len(timers) - 1) ELSE timers

\* the handle after the oldest of the timers has fired
AfterFire(handle, timers) == IF handle = "last" /\ Len(timers) = 1 THEN "dead" ELSE handle

\* ------------------------------------------------------------------------
\* useAutoSave (useAutoSave.ts lines 179-252)
\* ------------------------------------------------------------------------

\* the hook's state, with what the current step has observed so far
Controller ==
  [saveStatus |-> saveStatus, lastSaved |-> lastSaved, saveTimeoutRef |-> saveTimeoutRef,
   saveTimers |-> saveTimers, effects |-> <<>>, console |-> <<>>]

\* the pending write is left alone
CancelPendingSave_Forgets(c) == c

\* lines 191-194: cancel the pending write
CancelPendingSave(c) ==
  [c EXCEPT !.saveTimers = ClearTimeout(c.saveTimeoutRef, @), !.saveTimeoutRef = "null"]

\* a save that is not debounced: the write is due at once
ScheduleSave_NoDebounce(c, ns, es, valid, t) ==
  [c EXCEPT !.saveStatus = "saving",
            !.saveTimers = Append(@, [due |-> t, since |-> t,
                                      isValid |-> valid, nodes |-> ns, edges |-> es]),
            !.saveTimeoutRef = "last"]

\* 'saving' is shown but no write is scheduled
ScheduleSave_NoTimer(c, ns, es, valid, t) == [c EXCEPT !.saveStatus = "saving"]

\* lines 211-228: 'saving', and the write is scheduled.  The timer is the
\* closure of the render that set it: it remembers when it was set and the
\* nodes, edges and isValid of that render.
ScheduleSave(c, ns, es, valid, t) ==
  [c EXCEPT !.saveStatus = "saving",
            !.saveTimers = Append(@, [due |-> t + DEBOUNCE_DELAY, since |-> t,
                                      isValid |-> valid, nodes |-> ns, edges |-> es]),
            !.saveTimeoutRef = "last"]

\* 'error' on an invalid graph, but the pending write is not cancelled first
AutoSaveEffect_ErrorKeepsTimer(c, ns, es, valid, store, t) ==
  IF ~valid
    THEN [c EXCEPT !.saveStatus = "error"]
  ELSE LET cancelled == CancelPendingSave(c)
           existingSaved == loadSavedWorkflow(store)
           loaded == [cancelled EXCEPT !.console = @ \o existingSaved.console]
       IN IF /\ existingSaved.result # <<>>
             /\ areWorkflowsEqual(ns, es, existingSaved.result[1].nodes,
                                  existingSaved.result[1].edges)
            THEN [loaded EXCEPT !.saveStatus = "saved",
                                !.lastSaved = DateOf(existingSaved.result[1].timestamp)]
            ELSE ScheduleSave(loaded, ns, es, valid, t)

\* the effect without its validity gate (lines 196-199 left out)
AutoSaveEffect_IgnoresValidity(c, ns, es, valid, store, t) ==
  LET cancelled == CancelPendingSave(c)
      existingSaved == loadSavedWorkflow(store)
      loaded == [cancelled EXCEPT !.console = @ \o existingSaved.console]
  IN IF /\ existingSaved.result # <<>>
        /\ areWorkflowsEqual(ns, es, existingSaved.result[1].nodes,
                             existingSaved.result[1].edges)
       THEN [loaded EXCEPT !.saveStatus = "saved",
                           !.lastSaved = DateOf(existingSaved.result[1].timestamp)]
       ELSE ScheduleSave(loaded, ns, es, valid, t)

\* the effect of lines 190-235, run with the nodes, edges and isValid of the
\* render it belongs to (its cleanup, lines 230-234, clears the same handle
\* the body clears first)
AutoSaveEffect(c, ns, es, valid, store, t) ==
  LET cancelled == CancelPendingSave(c)
  IN IF ~valid
       THEN [cancelled EXCEPT !.saveStatus = "error"]
     ELSE LET existingSaved == loadSavedWorkflow(store)
              loaded == [cancelled EXCEPT !.console = @ \o existingSaved.console]
          IN IF /\ existingSaved.result # <<>>
                /\ areWorkflowsEqual(ns, es, existingSaved.result[1].nodes,
                                     existingSaved.result[1].edges)
               THEN [loaded EXCEPT !.saveStatus = "saved",
                                   !.lastSaved = DateOf(existingSaved.result[1].timestamp)]
               ELSE ScheduleSave(loaded, ns, es, valid, t)

\* one run of the effect, and the record of it: what the run was given, and
\* the status, lastSaved and pending timers it left
RunAutoSaveEffect(c, ns, es, valid, store, t) ==
  LET after == AutoSaveEffect(c, ns, es, valid, store, t)
  IN [after EXCEPT !.effects =
        Append(@, [isValid |-> valid, nodes |-> ns, edges |-> es, stored |-> store,
                   status |-> after.saveStatus, lastSaved |-> after.lastSaved,
                   timers |-> after.saveTimers])]

\* what the hook held before the step: what its user could see, the isValid
\* it was rendered with and its pending timers
Before ==
  [saveStatus |-> saveStatus, lastSaved |-> lastSaved, localStorage |-> localStorage,
   isValid |-> isWorkflowValid, saveTimers |-> saveTimers]

\* the hook's state after the step, and the record of the step
SetController(c, writes) ==
  /\ saveStatus' = c.saveStatus
  /\ lastSaved' = c.lastSaved
  /\ saveTimeoutRef' = c.saveTimeoutRef
  /\ saveTimers' = c.saveTimers
  /\ step' = [effects |-> c.effects, writes |-> writes, console |-> c.console,
              cleared |-> FALSE, before |-> Before]

\* ------------------------------------------------------------------------
\* WorkflowEditor (SaveStatusIndicator.tsx lines 188-437)
\* ------------------------------------------------------------------------

\* a validation effect without the cleanup of the previous run
ValidationEffect_NoCleanup(timers, timeoutId, ns, es, t) ==
  [timers |-> Append(timers, [due |-> t + VALIDATION_DELAY, nodes |-> ns, edges |-> es]),
   timeoutId |-> "last"]

\* lines 212-220: the validation effect: the cleanup of the previous run,
\* then a new timer that holds the nodes and edges of this render
ValidationEffect(timers, timeoutId, ns, es, t) ==
  [timers |-> Append(ClearTimeout(timeoutId, timers),
                     [due |-> t + VALIDATION_DELAY, nodes |-> ns, edges |-> es]),
   timeoutId |-> "last"]

\* validationErrors.filter((err) => err.nodeId === node.id)
ErrorsOfNode(errors, nodeId) ==
  LET Test(err) == "nodeId" \in DOMAIN err /\ err.nodeId = nodeId
  IN SelectSeq(errors, Test)

\* a rewrite that adds the errors to those the node carries already
WithValidationErrors_Accumulates(ns, errors) ==
  [i \in 1..Len(ns) |->
     [ns[i] EXCEPT !.data =
        Spread(@, [validationErrors |->
                     (IF "validationErrors" \in DOMAIN ns[i].data
                        THEN ns[i].data.validationErrors ELSE <<>>)
                     \o ErrorsOfNode(errors, ns[i].id)])]]

\* lines 282-295: every node gets its errors written into its data
WithValidationErrors(ns, errors) ==
  [i \in 1..Len(ns) |->
     [ns[i] EXCEPT !.data = Spread(@, [validationErrors |-> ErrorsOfNode(errors, ns[i].id)])]]

\* the restore dialog is modal: nothing else can be clicked while it is open
DialogOpen == showRestoreDialog /\ savedWorkflowData # <<>>

\* A user event has set the nodes to ns and the edges to es (new arrays).
\* The render that follows runs the validation effect when the serialised
\* nodes or edges changed, and the auto-save effect in any case.
Mutate(ns, es) ==
  LET jsonChanged == JsonNodes(ns) # JsonNodes(nodes) \/ JsonEdges(es) # JsonEdges(edges)
      v == IF jsonChanged
             THEN ValidationEffect(validationTimers, validationTimeoutId, ns, es, now)
           ELSE [timers |-> validationTimers, timeoutId |-> validationTimeoutId]
      c == RunAutoSaveEffect(Controller, ns, es, isWorkflowValid, localStorage, now)
  IN /\ nodes' = ns
     /\ edges' = es
     /\ nodesRef' = ns
     /\ edgesRef' = es
     /\ validationTimers' = v.timers
     /\ validationTimeoutId' = v.timeoutId
     /\ SetController(c, <<>>)
     /\ UNCHANGED <<validationErrors, isWorkflowValid, localStorage, now>>

\* ---- the user's events ------------------------------------------------

GoodUrl == <<"h","t","t","p","s",":","/","/","x">>
EmptyText == <<>>

\* the blocks the model's user drags in, in this order
Palette == <<"start", "api", "end">>

\* lines 141-172
getBlockConfig(blockType) ==
  CASE blockType = "start" -> [label |-> "Start"]
    [] blockType = "form" ->
         [label |-> "Form", customName |-> <<"F","o","r","m">>, fields |-> <<>>]
    [] blockType = "conditional" ->
         [label |-> "Conditional",
          customName |-> <<"C","o","n","d","i","t","i","o","n","a","l">>,
          fieldToEvaluate |-> <<>>, operator |-> "equals", value |-> <<>>,
          routes |-> <<[id |-> "true", label |-> "True", condition |-> ""],
                       [id |-> "false", label |-> "False", condition |-> ""]>>]
    [] blockType = "api" -> [label |-> "API Call", url |-> <<>>, method |-> "GET"]
    [] blockType = "end" -> [label |-> "End"]
    [] OTHER -> [label |-> blockType]

\* line 139: an id nobody has yet
getId(n) == "node_" \o ToString(n + 1)

NodeIds(ns) == {ns[i].id : i \in 1..Len(ns)}

NodeWithId(ns, id) == ns[CHOOSE i \in 1..Len(ns) : ns[i].id = id]

\* lines 359-392
handleAddBlock(blockType) ==
  /\ ~DialogOpen
  /\ edits < MaxEdits
  /\ edits' = edits + 1
  /\ Len(nodes) < MaxNodes
  /\ nextId < Len(Palette)
  /\ blockType = Palette[nextId + 1]
  /\ LET nodeId == getId(nextId)
         newNode == [id |-> nodeId, type |-> blockType,
                     position |-> [x |-> 100, y |-> 100],
                     data |-> Spread(getBlockConfig(blockType), [onDelete |-> "function"])]
     IN Mutate(Append(nodes, newNode), edges)
  /\ nextId' = nextId + 1
  /\ restored' = <<>>
  /\ suggestions' = suggestions
  /\ UNCHANGED <<savedWorkflowData, showRestoreDialog>>

\* the handles a node of this type offers as the source of a connection
SourceHandles(type) == IF type = "conditional" THEN {"true", "false"} ELSE {Null}

\* the label onConnect gives the edge (lines 232-237)
ConnectLabel(sourceNode, sourceHandle) ==
  IF sourceNode.type = "conditional" /\ sourceHandle # Null
    THEN LET Test(r) == r.id = sourceHandle
             route == SelectSeq(sourceNode.data.routes, Test)
         IN IF route # <<>> /\ route[1].label # "" THEN route[1].label ELSE sourceHandle
    ELSE ""

\* the id addEdge gives a new edge
EdgeId(params) ==
  "xy-edge__" \o params.source
    \o (IF params.sourceHandle = Null THEN "" ELSE params.sourceHandle)
    \o "-" \o params.target
    \o (IF params.targetHandle = Null THEN "" ELSE params.targetHandle)

\* addEdge leaves the edges alone when the connection is there already
ConnectionExists(es, params) ==
  \E i \in 1..Len(es) :
    /\ es[i].source = params.source /\ es[i].target = params.target
    /\ es[i].sourceHandle = params.sourceHandle /\ es[i].targetHandle = params.targetHandle

\* lines 228-242
onConnect(source, target, sourceHandle) ==
  /\ ~DialogOpen
  /\ edits < MaxEdits
  /\ edits' = edits + 1
  /\ Len(edges) < MaxEdges
  /\ source \in NodeIds(nodes) /\ target \in NodeIds(nodes)
  /\ source # target
  /\ NodeWithId(nodes, source).type # "end"
  /\ NodeWithId(nodes, target).type # "start"
  /\ sourceHandle \in SourceHandles(NodeWithId(nodes, source).type)
  /\ LET params == [source |-> source, sourceHandle |-> sourceHandle,
                    target |-> target, targetHandle |-> Null]
         edge == Spread(params,
                   [label |-> ConnectLabel(NodeWithId(nodes, source), sourceHandle),
                    id |-> EdgeId(params)])
     IN /\ ~ConnectionExists(edges, params)
        /\ Mutate(nodes, Append(edges, edge))
  /\ restored' = <<>>
  /\ suggestions' = suggestions
  /\ UNCHANGED <<savedWorkflowData, showRestoreDialog, nextId>>

\* lines 263-269
deleteEdge(edgeId) ==
  /\ ~DialogOpen
  /\ edits < MaxEdits
  /\ edits' = edits + 1
  /\ \E i \in 1..Len(edges) : edges[i].id = edgeId
  /\ LET Keep(e) == e.id # edgeId
     IN Mutate(nodes, SelectSeq(edges, Keep))
  /\ restored' = <<>>
  /\ suggestions' = suggestions
  /\ UNCHANGED <<savedWorkflowData, showRestoreDialog, nextId>>

\* lines 327-334
deleteNode(nodeId) ==
  /\ ~DialogOpen
  /\ edits < MaxEdits
  /\ edits' = edits + 1
  /\ nodeId \in NodeIds(nodes)
  /\ LET KeepNode(n) == n.id # nodeId
         KeepEdge(e) == e.source # nodeId /\ e.target # nodeId
     IN Mutate(SelectSeq(nodes, KeepNode), SelectSeq(edges, KeepEdge))
  /\ restored' = <<>>
  /\ suggestions' = suggestions
  /\ UNCHANGED <<savedWorkflowData, showRestoreDialog, nextId>>

\* what the node editor sends for a node of this type
DataPatches(type) ==
  IF type = "api" THEN {[url |-> GoodUrl], [url |-> EmptyText]} ELSE {}

\* lines 271-280
updateNodeData(nodeId, newData) ==
  /\ ~DialogOpen
  /\ edits < MaxEdits
  /\ edits' = edits + 1
  /\ nodeId \in NodeIds(nodes)
  /\ LET ns == [i \in 1..Len(nodes) |->
                  IF nodes[i].id = nodeId
                    THEN [nodes[i] EXCEPT !.data = Spread(@, newData)]
                    ELSE nodes[i]]
     IN Mutate(ns, edges)
  /\ restored' = <<>>
  /\ suggestions' = suggestions
  /\ UNCHANGED <<savedWorkflowData, showRestoreDialog, nextId>>

\* what ReactFlow reports through onNodesChange: a node was clicked
\* (selected) or dragged to another place
Elsewhere == [x |-> 250, y |-> 100]

\* the model's user clicks and drags the first node of the canvas
NodeChanges(ns) ==
  IF ns = <<>> THEN {}
  ELSE {[type |-> "select", id |-> ns[1].id],
        [type |-> "position", id |-> ns[1].id, position |-> Elsewhere]}

\* applyNodeChanges: the clicked node becomes the selected one; a dragged
\* node gets its new position
ApplyNodeChange(n, change) ==
  IF change.type = "select"
    THEN IF n.id = change.id THEN Spread(n, [selected |-> TRUE])
         ELSE IF "selected" \in DOMAIN n THEN Spread(n, [selected |-> FALSE])
         ELSE n
    ELSE IF n.id = change.id THEN Spread(n, [position |-> change.position]) ELSE n

\* line 478: onNodesChange={onNodesChange}
onNodesChange(change) ==
  /\ ~DialogOpen
  /\ edits < MaxEdits
  /\ edits' = edits + 1
  /\ LET ns == [i \in 1..Len(nodes) |-> ApplyNodeChange(nodes[i], change)]
     IN /\ ns # nodes
        /\ Mutate(ns, edges)
  /\ restored' = <<>>
  /\ suggestions' = suggestions
  /\ UNCHANGED <<savedWorkflowData, showRestoreDialog, nextId>>

\* lines 424-431
handleRestoreWorkflow ==
  /\ DialogOpen
  /\ Mutate(savedWorkflowData[1].nodes, savedWorkflowData[1].edges)
  /\ showRestoreDialog' = FALSE
  /\ savedWorkflowData' = <<>>
  /\ LET size == Len(savedWorkflowData[1].nodes) + Len(savedWorkflowData[1].edges)
     IN edits' = IF edits < size THEN size ELSE edits
  /\ restored' = localStorage
  /\ suggestions' = suggestions
  /\ UNCHANGED nextId

\* a clearSaved that removes the item and sets 'idle' but leaves lastSaved
clearSaved_KeepsLastSaved ==
  /\ localStorage' = <<>>
  /\ lastSaved' = lastSaved
  /\ saveStatus' = "idle"
  /\ step' = [effects |-> <<>>, writes |-> <<>>, console |-> <<>>,
              cleared |-> TRUE, before |-> Before]
  /\ UNCHANGED <<saveTimers, saveTimeoutRef>>

\* a clearSaved that removes the item and lastSaved but leaves the status
clearSaved_KeepsStatus ==
  /\ localStorage' = <<>>
  /\ lastSaved' = <<>>
  /\ saveStatus' = saveStatus
  /\ step' = [effects |-> <<>>, writes |-> <<>>, console |-> <<>>,
              cleared |-> TRUE, before |-> Before]
  /\ UNCHANGED <<saveTimers, saveTimeoutRef>>

\* clearSaved (useAutoSave.ts lines 237-245): no dependency of the save effect
\* changes, so the effect does not run
clearSaved ==
  /\ localStorage' = <<>>
  /\ lastSaved' = <<>>
  /\ saveStatus' = "idle"
  /\ step' = [effects |-> <<>>, writes |-> <<>>, console |-> <<>>,
              cleared |-> TRUE, before |-> Before]
  /\ UNCHANGED <<saveTimers, saveTimeoutRef>>

\* lines 433-437
handleDiscardWorkflow ==
  /\ DialogOpen
  /\ clearSaved
  /\ showRestoreDialog' = FALSE
  /\ savedWorkflowData' = <<>>
  /\ UNCHANGED <<nodes, edges, nodesRef, edgesRef, validationErrors, isWorkflowValid,
                 validationTimers, validationTimeoutId, now, nextId, edits, restored,
                 suggestions>>

\* line 562: onOpenChange={setShowRestoreDialog}: the dialog is dismissed (Escape)
dismissRestoreDialog ==
  /\ DialogOpen
  /\ showRestoreDialog' = FALSE
  /\ step' = [effects |-> <<>>, writes |-> <<>>, console |-> <<>>,
              cleared |-> FALSE, before |-> Before]
  /\ UNCHANGED <<nodes, edges, nodesRef, edgesRef, validationErrors, isWorkflowValid,
                 validationTimers, validationTimeoutId, savedWorkflowData, saveStatus,
                 lastSaved, saveTimers, saveTimeoutRef, localStorage, now, nextId, edits,
                 restored,
                 suggestions>>

\* ---- timers -----------------------------------------------------------

\* lines 213-217: the validation timer fires.  Its two state updates make one
\* render, in which the save effect runs if isValid changed and the effect of
\* lines 282-295 rewrites the nodes; the render after that runs the
\* validation effect if the serialised nodes changed, and the save effect.
validationTimerFires ==
  /\ validationTimers # <<>>
  /\ Head(validationTimers).due <= now
  /\ LET timer == Head(validationTimers)
         result == validateWorkflow(timer.nodes, timer.edges)
         c1 == IF result.isValid # isWorkflowValid
                 THEN RunAutoSaveEffect(Controller, nodes, edges, result.isValid,
                                        localStorage, now)
                 ELSE Controller
         ns == WithValidationErrors(nodes, result.errors)
         rest == Tail(validationTimers)
         handle == AfterFire(validationTimeoutId, validationTimers)
         v == IF JsonNodes(ns) # JsonNodes(nodes)
                THEN ValidationEffect(rest, handle, ns, edges, now)
                ELSE [timers |-> rest, timeoutId |-> handle]
         c2 == RunAutoSaveEffect(c1, ns, edges, result.isValid, localStorage, now)
     IN /\ validationErrors' = result.errors
        /\ isWorkflowValid' = result.isValid
        /\ nodes' = ns
        /\ nodesRef' = ns
        /\ validationTimers' = v.timers
        /\ validationTimeoutId' = v.timeoutId
        /\ SetController(c2, <<>>)
  /\ UNCHANGED <<edges, edgesRef, savedWorkflowData, showRestoreDialog, localStorage,
                 now, nextId, edits, restored,
                 suggestions>>

\* a callback that forgets setLastSaved after a successful write
SaveCallback_KeepsLastSaved(c, store, ns, es, t, setItemSucceeds) ==
  LET workflowData == StringifyWorkflow(ns, es, t)
  IN IF setItemSucceeds
       THEN [controller |-> [c EXCEPT !.saveStatus = "saved"],
             localStorage |-> <<workflowData>>,
             write |-> [ok |-> TRUE, item |-> workflowData]]
       ELSE [controller |-> [c EXCEPT !.saveStatus = "error",
                                      !.console = Append(@, "error")],
             localStorage |-> store,
             write |-> [ok |-> FALSE, item |-> workflowData]]

\* a callback whose catch also resets lastSaved
SaveCallback_FailureClearsLastSaved(c, store, ns, es, t, setItemSucceeds) ==
  LET workflowData == StringifyWorkflow(ns, es, t)
  IN IF setItemSucceeds
       THEN [controller |-> [c EXCEPT !.saveStatus = "saved", !.lastSaved = <<t>>],
             localStorage |-> <<workflowData>>,
             write |-> [ok |-> TRUE, item |-> workflowData]]
       ELSE [controller |-> [c EXCEPT !.saveStatus = "error", !.lastSaved = <<>>,
                                      !.console = Append(@, "error")],
             localStorage |-> store,
             write |-> [ok |-> FALSE, item |-> workflowData]]

\* a callback whose catch schedules the write again
SaveCallback_RetriesAfterFailure(c, store, ns, es, t, setItemSucceeds) ==
  LET workflowData == StringifyWorkflow(ns, es, t)
  IN IF setItemSucceeds
       THEN [controller |-> [c EXCEPT !.saveStatus = "saved", !.lastSaved = <<t>>],
             localStorage |-> <<workflowData>>,
             write |-> [ok |-> TRUE, item |-> workflowData]]
       ELSE [controller |-> [c EXCEPT !.saveStatus = "error",
                                      !.console = Append(@, "error"),
                                      !.saveTimers = Append(@, [due |-> t + DEBOUNCE_DELAY,
                                                                since |-> t, isValid |-> TRUE,
                                                                nodes |-> ns, edges |-> es]),
                                      !.saveTimeoutRef = "last"],
             localStorage |-> store,
             write |-> [ok |-> FALSE, item |-> workflowData]]

\* a callback whose catch reports the failure but leaves the status
SaveCallback_FailureLeavesStatus(c, store, ns, es, t, setItemSucceeds) ==
  LET workflowData == StringifyWorkflow(ns, es, t)
  IN IF setItemSucceeds
       THEN [controller |-> [c EXCEPT !.saveStatus = "saved", !.lastSaved = <<t>>],
             localStorage |-> <<workflowData>>,
             write |-> [ok |-> TRUE, item |-> workflowData]]
       ELSE [controller |-> [c EXCEPT !.console = Append(@, "error")],
             localStorage |-> store,
             write |-> [ok |-> FALSE, item |-> workflowData]]

\* a callback whose failed write loses the record that was stored
SaveCallback_FailureLosesRecord(c, store, ns, es, t, setItemSucceeds) ==
  LET workflowData == StringifyWorkflow(ns, es, t)
  IN IF setItemSucceeds
       THEN [controller |-> [c EXCEPT !.saveStatus = "saved", !.lastSaved = <<t>>],
             localStorage |-> <<workflowData>>,
             write |-> [ok |-> TRUE, item |-> workflowData]]
       ELSE [controller |-> [c EXCEPT !.saveStatus = "error",
                                      !.console = Append(@, "error")],
             localStorage |-> <<>>,
             write |-> [ok |-> FALSE, item |-> workflowData]]

\* useAutoSave.ts lines 213-228: the callback of the save timer, run at time t
\* with nodesRef.current = ns, edgesRef.current = es.  setItem stores the
\* record or throws; the catch reports the failure and sets 'error'.
SaveCallback(c, store, ns, es, t, setItemSucceeds) ==
  LET workflowData == StringifyWorkflow(ns, es, t)
  IN IF setItemSucceeds
       THEN [controller |-> [c EXCEPT !.saveStatus = "saved", !.lastSaved = <<t>>],
             localStorage |-> <<workflowData>>,
             write |-> [ok |-> TRUE, item |-> workflowData]]
       ELSE [controller |-> [c EXCEPT !.saveStatus = "error",
                                      !.console = Append(@, "error")],
             localStorage |-> store,
             write |-> [ok |-> FALSE, item |-> workflowData]]

\* the oldest save timer fires
saveTimerFires(setItemSucceeds) ==
  /\ saveTimers # <<>>
  /\ Head(saveTimers).due <= now
  /\ LET fired == [Controller EXCEPT
                     !.saveTimers = Tail(saveTimers),
                     !.saveTimeoutRef = AfterFire(saveTimeoutRef, saveTimers)]
         done == SaveCallback(fired, localStorage, nodesRef, edgesRef, now, setItemSucceeds)
     IN /\ localStorage' = done.localStorage
        /\ SetController(done.controller,
                         <<Spread(done.write, [timer |-> Head(saveTimers)])>>)
  /\ UNCHANGED <<nodes, edges, nodesRef, edgesRef, validationErrors, isWorkflowValid,
                 validationTimers, validationTimeoutId, savedWorkflowData,
                 showRestoreDialog, now, nextId, edits, restored,
                 suggestions>>

\* the instants at which a pending timer is due
DueTimes == {validationTimers[i].due : i \in 1..Len(validationTimers)}
              \cup {saveTimers[i].due : i \in 1..Len(saveTimers)}

Earliest(S) == CHOOSE t \in S : \A u \in S : t <= u

\* time passes, but never beyond a timer that is due
tick ==
  LET target == IF DueTimes = {} THEN now + Quantum ELSE Earliest(DueTimes)
  IN /\ target > now
     /\ target <= MaxTime
     /\ now' = target
     /\ step' = [effects |-> <<>>, writes |-> <<>>, console |-> <<>>,
                 cleared |-> FALSE, before |-> Before]
     /\ UNCHANGED <<nodes, edges, nodesRef, edgesRef, validationErrors, isWorkflowValid,
                    validationTimers, validationTimeoutId, savedWorkflowData,
                    showRestoreDialog, saveStatus, lastSaved, saveTimers, saveTimeoutRef,
                    localStorage, nextId, edits, restored,
                 suggestions>>

\* ---- mount ------------------------------------------------------------

\* the hook's state of useState/useRef before any effect has run
FreshController ==
  [saveStatus |-> "idle", lastSaved |-> <<>>, saveTimeoutRef |-> "null",
   saveTimers |-> <<>>, effects |-> <<>>, console |-> <<>>]

\* an editor whose isValid starts as true: the save effect of the first
\* render takes the empty canvas for valid
Mounted_ValidFromTheStart(store, t) ==
  LET saved == loadSavedWorkflow(store)
      c0 == [FreshController EXCEPT !.console = saved.console]
      c1 == RunAutoSaveEffect(c0, <<>>, <<>>, TRUE, store, t)
      c2 == RunAutoSaveEffect(c1, <<>>, <<>>, TRUE, store, t)
  IN [savedWorkflowData |-> saved.result,
      showRestoreDialog |-> saved.result # <<>>,
      validation |-> ValidationEffect(<<>>, "null", <<>>, <<>>, t),
      controller |-> c2]

\* The editor after its first render and effects, at time t with the given
\* storage: lines 201-207 look for a saved record, the validation effect sets
\* its first timer, the save effect runs with isValid = false, and the
\* effect of lines 282-295 replaces the (empty) nodes, which runs the save
\* effect once more.
Mounted(store, t) ==
  LET saved == loadSavedWorkflow(store)
      c0 == [FreshController EXCEPT !.console = saved.console]
      c1 == RunAutoSaveEffect(c0, <<>>, <<>>, FALSE, store, t)
      c2 == RunAutoSaveEffect(c1, <<>>, <<>>, FALSE, store, t)
  IN [savedWorkflowData |-> saved.result,
      showRestoreDialog |-> saved.result # <<>>,
      validation |-> ValidationEffect(<<>>, "null", <<>>, <<>>, t),
      controller |-> c2]

\* the workflow an earlier session of the editor built and saved: its blocks
\* had other ids, its nodes carry the validationErrors the editor had written
\* into them, and the record is older than this session
EarlierNodes ==
  <<[id |-> "node_a", type |-> "start", position |-> [x |-> 100, y |-> 100],
     data |-> Spread(getBlockConfig("start"), [onDelete |-> "function"])],
    [id |-> "node_b", type |-> "api", position |-> [x |-> 100, y |-> 100],
     data |-> Spread(Spread(getBlockConfig("api"), [onDelete |-> "function"]),
                     [url |-> GoodUrl])],
    [id |-> "node_c", type |-> "end", position |-> [x |-> 100, y |-> 100],
     data |-> Spread(getBlockConfig("end"), [onDelete |-> "function"])]>>

EarlierEdges ==
  <<[id |-> "xy-edge__node_a-node_b", source |-> "node_a", sourceHandle |-> Null,
     target |-> "node_b", targetHandle |-> Null, label |-> ""],
    [id |-> "xy-edge__node_b-node_c", source |-> "node_b", sourceHandle |-> Null,
     target |-> "node_c", targetHandle |-> Null, label |-> ""]>>

EarlierRecord ==
  StringifyWorkflow(WithValidationErrors(EarlierNodes, <<>>), EarlierEdges, 0 - DEBOUNCE_DELAY)

\* what an earlier session, or anything else, may have left under the key
InitialStorage == {<<>>, <<EarlierRecord>>}

Init ==
  /\ localStorage \in InitialStorage
  /\ now = 0
  /\ nextId = 0
  /\ edits = 0
  /\ restored = <<>>
  /\ suggestions = NoSuggestions
  /\ nodes = <<>> /\ edges = <<>> /\ nodesRef = <<>> /\ edgesRef = <<>>
  /\ validationErrors = <<>>
  /\ isWorkflowValid = FALSE
  /\ LET m == Mounted(localStorage, 0)
     IN /\ savedWorkflowData = m.savedWorkflowData
        /\ showRestoreDialog = m.showRestoreDialog
        /\ validationTimers = m.validation.timers
        /\ validationTimeoutId = m.validation.timeoutId
        /\ saveStatus = m.controller.saveStatus
        /\ lastSaved = m.controller.lastSaved
        /\ saveTimers = m.controller.saveTimers
        /\ saveTimeoutRef = m.controller.saveTimeoutRef
        /\ step = [effects |-> m.controller.effects, writes |-> <<>>,
                   console |-> m.controller.console, cleared |-> FALSE,
                   before |-> [saveStatus |-> "idle", lastSaved |-> <<>>,
                               localStorage |-> localStorage,
                               isValid |-> FALSE, saveTimers |-> <<>>]]

\* the page is loaded again: every timer and all component state is gone,
\* the storage stays
reload ==
  /\ nodes # <<>>
  /\ nodes' = <<>> /\ edges' = <<>> /\ nodesRef' = <<>> /\ edgesRef' = <<>>
  /\ validationErrors' = <<>>
  /\ isWorkflowValid' = FALSE
  /\ LET m == Mounted(localStorage, now)
     IN /\ savedWorkflowData' = m.savedWorkflowData
        /\ showRestoreDialog' = m.showRestoreDialog
        /\ validationTimers' = m.validation.timers
        /\ validationTimeoutId' = m.validation.timeoutId
        /\ SetController(m.controller, <<>>)
  /\ restored' = <<>>
  /\ suggestions' = suggestions
  /\ UNCHANGED <<localStorage, now, nextId, edits>>

Next ==
  \/ \E blockType \in {Palette[i] : i \in 1..Len(Palette)} : handleAddBlock(blockType)
  \/ \E source \in NodeIds(nodes), target \in NodeIds(nodes), h \in {Null, "true", "false"} :
       onConnect(source, target, h)
  \/ \E i \in 1..Len(edges) : deleteEdge(edges[i].id)
  \/ \E nodeId \in NodeIds(nodes) : deleteNode(nodeId)
  \/ \E nodeId \in NodeIds(nodes) :
       \E newData \in DataPatches(NodeWithId(nodes, nodeId).type) :
         updateNodeData(nodeId, newData)
  \/ \E change \in NodeChanges(nodes) : onNodesChange(change)
  \/ handleRestoreWorkflow
  \/ handleDiscardWorkflow
  \/ dismissRestoreDialog
  \/ validationTimerFires
  \/ \E setItemSucceeds \in BOOLEAN : saveTimerFires(setItemSucceeds)
  \/ tick
  \/ reload

Spec == Init /\ [][Next]_vars

\* ------------------------------------------------------------------------
\* useAutoSave on its own: a component that renders the hook with whatever
\* nodes, edges and isValid it likes, and calls clearSaved when it likes
\* ------------------------------------------------------------------------

\* items under the key that no controller wrote
EmptyTimestampRecord ==
  [kind |-> "json", value |-> [EarlierRecord.value EXCEPT !.timestamp = <<>>]]

NoTimestampRecord ==
  [kind |-> "json", value |-> Restrict(EarlierRecord.value, {"nodes", "edges"})]

NoNodesRecord ==
  [kind |-> "json", value |-> Restrict(EarlierRecord.value, {"edges", "timestamp"})]

NoEdgesRecord ==
  [kind |-> "json", value |-> Restrict(EarlierRecord.value, {"nodes", "timestamp"})]

\* the empty text, and a text that is not JSON
EmptyItem == [kind |-> "empty"]
CorruptItem == [kind |-> "text"]

\* the JSON text null, and the JSON text {}
NullItem == [kind |-> "null"]
EmptyObjectItem == [kind |-> "json", value |-> <<>>]

StoredValues ==
  InitialStorage \cup
    {<<EmptyItem>>, <<CorruptItem>>, <<EmptyTimestampRecord>>, <<NoTimestampRecord>>,
     <<NoNodesRecord>>, <<NoEdgesRecord>>, <<StringifyWorkflow(<<>>, <<>>, 0)>>,
     <<NullItem>>, <<EmptyObjectItem>>}

\* the nodes and edges given to the hook
HookNodes ==
  LET kept == WithValidationErrors(EarlierNodes, <<>>)
  IN {<<>>, kept,
      [i \in 1..Len(kept) |->
         ApplyNodeChange(kept[i], [type |-> "select", id |-> kept[1].id])],
      [i \in 1..Len(kept) |->
         ApplyNodeChange(kept[i], [type |-> "position", id |-> kept[1].id,
                                   position |-> Elsewhere])]}

HookEdges == {<<>>, EarlierEdges, SubSeq(EarlierEdges, 1, 1)}

\* the hook is rendered with new arrays and an isValid: the effect of lines
\* 190-235 runs
render(ns, es, valid) ==
  /\ edits < MaxRenders
  /\ edits' = edits + 1
  /\ nodes' = ns /\ edges' = es /\ isWorkflowValid' = valid
  /\ nodesRef' = ns /\ edgesRef' = es
  /\ SetController(RunAutoSaveEffect(Controller, ns, es, valid, localStorage, now), <<>>)
  /\ UNCHANGED <<validationErrors, validationTimers, validationTimeoutId,
                 savedWorkflowData, showRestoreDialog, localStorage, now, nextId, restored,
                 suggestions>>

\* the component calls clearSaved
callClearSaved ==
  /\ clearSaved
  /\ UNCHANGED <<nodes, edges, nodesRef, edgesRef, validationErrors, isWorkflowValid,
                 validationTimers, validationTimeoutId, savedWorkflowData,
                 showRestoreDialog, now, nextId, edits, restored,
                 suggestions>>

\* the hook after its first render, with an empty canvas and isValid = false
HookInit ==
  /\ localStorage \in StoredValues
  /\ now = 0 /\ nextId = 0 /\ edits = 0 /\ restored = <<>>
  /\ suggestions = NoSuggestions
  /\ nodes = <<>> /\ edges = <<>> /\ nodesRef = <<>> /\ edgesRef = <<>>
  /\ validationErrors = <<>> /\ isWorkflowValid = FALSE
  /\ validationTimers = <<>> /\ validationTimeoutId = "null"
  /\ savedWorkflowData = <<>> /\ showRestoreDialog = FALSE
  /\ LET c == RunAutoSaveEffect(FreshController, <<>>, <<>>, FALSE, localStorage, 0)
     IN /\ saveStatus = c.saveStatus
        /\ lastSaved = c.lastSaved
        /\ saveTimers = c.saveTimers
        /\ saveTimeoutRef = c.saveTimeoutRef
        /\ step = [effects |-> c.effects, writes |-> <<>>, console |-> c.console,
                   cleared |-> FALSE,
                   before |-> [saveStatus |-> "idle", lastSaved |-> <<>>,
                               localStorage |-> localStorage,
                               isValid |-> FALSE, saveTimers |-> <<>>]]

HookNext ==
  \/ \E ns \in HookNodes, es \in HookEdges, valid \in BOOLEAN : render(ns, es, valid)
  \/ \E setItemSucceeds \in BOOLEAN : saveTimerFires(setItemSucceeds)
  \/ tick
  \/ callClearSaved

HookSpec == HookInit /\ [][HookNext]_vars

\* ------------------------------------------------------------------------
\* Properties of the editor (Spec)
\* ------------------------------------------------------------------------

\* the writes to storage the last step attempted
Writes == {step.writes[i] : i \in 1..Len(step.writes)}

\* the runs of the save effect in the last step
Effects == {step.effects[i] : i \in 1..Len(step.effects)}

\* C1: every record the controller writes to storage holds nodes and edges
\* that validateWorkflow accepts (isValid = true).
C1_WrittenRecordsAreValid ==
  /\ \A w \in Writes :
       w.ok => validateWorkflow(w.item.value.nodes, w.item.value.edges).isValid
  /\ (localStorage # <<>> /\ localStorage[1].kind = "json") =>
       validateWorkflow(localStorage[1].value.nodes, localStorage[1].value.edges).isValid

\* a record of three nodes and two edges has just been written
C1_Witness ==
  \E w \in Writes :
    /\ w.ok
    /\ localStorage = <<w.item>>
    /\ Len(w.item.value.nodes) = 3 /\ Len(w.item.value.edges) = 2
    /\ step.before.localStorage = <<>>

\* C2, as the claim states it: whenever a save timer is started, the isValid
\* the effect read is the result of validateWorkflow on the nodes and edges
\* of that same render.
C2_TimerStartsOnFreshValidity ==
  \A run \in Effects :
    run.timers # <<>> =>
      run.isValid = validateWorkflow(run.nodes, run.edges).isValid

\* C2, amended: whenever a save timer fires, the isValid it was started with
\* is the result of validateWorkflow on the nodes and edges of the render
\* that started it, and these are the nodes and edges it writes.
C2_TimerFiresOnFreshValidity ==
  \A w \in Writes :
    /\ w.timer.isValid = validateWorkflow(w.timer.nodes, w.timer.edges).isValid
    /\ w.item.value.nodes = JsonNodes(w.timer.nodes)
    /\ w.item.value.edges = JsonEdges(w.timer.edges)

\* a save timer fires in a session in which a timer had been started on a
\* stale isValid: the canvas was edited after a record was stored
C2_Witness ==
  \E w \in Writes :
    /\ w.ok
    /\ step.before.localStorage # <<>>
    /\ step.before.localStorage[1].value.nodes # w.item.value.nodes

\* C9: after a restore, and for as long as the user has not edited the
\* canvas, the status is never 'saving', no timer is pending, nothing is
\* written, the stored item is the one restored from, and once validation
\* has reported the graph valid the status is 'saved'.
C9_RestoreDoesNotSave ==
  restored # <<>> =>
    /\ \A run \in Effects : run.status # "saving" /\ run.timers = <<>>
    /\ saveStatus # "saving"
    /\ saveTimers = <<>>
    /\ Writes = {}
    /\ localStorage = restored
    /\ isWorkflowValid => saveStatus = "saved" /\ lastSaved = DateOf(restored[1].value.timestamp)

\* the restored graph has been validated and found valid, and time has
\* passed beyond the save delay
C9_Witness ==
  /\ restored # <<>>
  /\ isWorkflowValid
  /\ validationTimers = <<>>
  /\ now >= DEBOUNCE_DELAY

\* the pending validation timers, as a set
PendingValidations == {validationTimers[i] : i \in 1..Len(validationTimers)}

\* C32: at most one validation timer is pending and it holds the serialised
\* nodes and edges of now, so the snapshot that gets validated is never a
\* superseded one; and when no validation timer is pending, the errors and
\* isValid the editor holds are validateWorkflow of the current nodes and edges.
C32_SettledValidationIsCurrent ==
  /\ Len(validationTimers) <= 1
  /\ \A timer \in PendingValidations :
       /\ JsonNodes(timer.nodes) = JsonNodes(nodes)
       /\ JsonEdges(timer.edges) = JsonEdges(edges)
  /\ validationTimers = <<>> =>
       /\ validationErrors = validateWorkflow(nodes, edges).errors
       /\ isWorkflowValid = validateWorkflow(nodes, edges).isValid

\* validation has settled on a canvas that was edited twice within the
\* validation delay
C32_Witness ==
  /\ validationTimers = <<>>
  /\ edits >= 2
  /\ nodes # <<>>
  /\ validationErrors # <<>>
  /\ now <= 2 * VALIDATION_DELAY

\* ------------------------------------------------------------------------
\* Properties of the controller (HookSpec)
\* ------------------------------------------------------------------------

\* the persisted record a run of the effect, or anyone, finds: <<>> or <<record>>
Persisted(store) == loadSavedWorkflow(store).result

\* the content equality the claims speak of: id, type, position and data
\* without its function-valued entries for each node; id, source, target,
\* sourceHandle, targetHandle and label for each edge
ContentEqual(ns, es, record) ==
  /\ Len(ns) = Len(record.nodes)
  /\ Len(es) = Len(record.edges)
  /\ \A i \in 1..Len(ns) :
       /\ ns[i].id = record.nodes[i].id
       /\ ns[i].type = record.nodes[i].type
       /\ ns[i].position = record.nodes[i].position
       /\ WithoutFunctions(ns[i].data) = WithoutFunctions(record.nodes[i].data)
  /\ \A i \in 1..Len(es) :
       /\ es[i].id = record.edges[i].id
       /\ es[i].source = record.edges[i].source
       /\ es[i].target = record.edges[i].target
       /\ es[i].sourceHandle = record.edges[i].sourceHandle
       /\ es[i].targetHandle = record.edges[i].targetHandle
       /\ es[i].label = record.edges[i].label

\* the run found a persisted record content-equal to its nodes and edges
FoundEqual(run) ==
  /\ Persisted(run.stored) # <<>>
  /\ ContentEqual(run.nodes, run.edges, Persisted(run.stored)[1])

\* C3: a run of the effect with isValid = false leaves the status 'error'
\* and no timer, whatever the status was; and while isValid is false no
\* timer is pending and nothing is written.
C3_InvalidInputsAreNotSaved ==
  /\ \A run \in Effects : ~run.isValid => run.status = "error" /\ run.timers = <<>>
  /\ (Effects # {} /\ ~isWorkflowValid) => saveStatus = "error"
  /\ ~isWorkflowValid => saveTimers = <<>> /\ Writes = {}

\* the effect has just run with isValid = false while a write was pending
C3_Witness ==
  /\ Effects # {}
  /\ ~isWorkflowValid
  /\ step.before.saveStatus = "saving"
  /\ saveStatus = "error"

C5_ChangedSnapshotIsSavedAfterTheDelay ==
  /\ \A run \in Effects :
       (run.isValid /\ ~FoundEqual(run)) =>
         /\ run.status = "saving"
         /\ run.timers # <<>>
         /\ run.timers[Len(run.timers)].due = now + DEBOUNCE_DELAY
  /\ (step.before.saveStatus = "saving" /\ saveStatus = "saved" /\ Effects = {}) =>
       \E w \in Writes : w.ok
  /\ \A w \in Writes :
       w.ok =>
         /\ saveStatus = "saved"
         /\ localStorage = <<w.item>>
         /\ Persisted(localStorage) # <<>>
         /\ ContentEqual(nodes, edges, Persisted(localStorage)[1])
         /\ Persisted(localStorage)[1].timestamp = toISOString(now)
         /\ lastSaved = <<now>>
         /\ now >= w.timer.since + DEBOUNCE_DELAY

\* a write has replaced an older record
C5_Witness ==
  \E w \in Writes :
    /\ w.ok
    /\ step.before.saveStatus = "saving"
    /\ Persisted(step.before.localStorage) # <<>>
    /\ nodes # <<>>

\* C6: at most one save timer is pending, and it was set by the run of the
\* effect for the current nodes, edges and isValid; the timer that fires was
\* set for the nodes and edges it writes, which are the current ones.
C6_ChangeCancelsThePendingTimer ==
  /\ Len(saveTimers) <= 1
  /\ \A run \in Effects : Len(run.timers) <= 1
  /\ \A i \in 1..Len(saveTimers) :
       /\ saveTimers[i].nodes = nodes
       /\ saveTimers[i].edges = edges
       /\ saveTimers[i].isValid = isWorkflowValid
  /\ \A w \in Writes :
       /\ w.timer.nodes = nodes /\ w.timer.edges = edges
       /\ w.item.value.nodes = JsonNodes(nodes)
       /\ w.item.value.edges = JsonEdges(edges)

\* one write after a burst of changes
C6_Witness ==
  \E w \in Writes :
    /\ w.ok
    /\ edits >= 3
    /\ w.timer.since = 0
    /\ saveTimers = <<>>

\* C7: when setItem throws in the timer's callback, the status is 'error',
\* the failure is caught and reported, and the stored item and lastSaved
\* are what they were.
C7_FailedWriteChangesNothing ==
  \A w \in Writes :
    ~w.ok =>
      /\ saveStatus = "error"
      /\ step.console = <<"error">>
      /\ localStorage = step.before.localStorage
      /\ lastSaved = step.before.lastSaved

\* a write failed while an older record and its lastSaved were there
C7_Witness ==
  \E w \in Writes :
    /\ ~w.ok
    /\ Persisted(step.before.localStorage) # <<>>
    /\ step.before.lastSaved # <<>>

HasAllKeys(item) ==
  item.kind = "json" /\ {"nodes", "edges", "timestamp"} \subseteq DOMAIN item.value

\* after a successful write, loadSavedWorkflow returns the nodes and edges
\* written, with the time of the write
RoundTrip ==
  \A w \in Writes :
    w.ok =>
      /\ loadSavedWorkflow(localStorage).console = <<>>
      /\ Persisted(localStorage) # <<>>
      /\ ContentEqual(nodesRef, edgesRef, Persisted(localStorage)[1])
      /\ Persisted(localStorage)[1].timestamp = toISOString(now)

\* C10, as the claim states it: a stored object in which nodes, edges and
\* timestamp are present is returned unchanged, and a write is read back.
C10_PresentRecordIsReturned ==
  /\ (localStorage # <<>> /\ HasAllKeys(localStorage[1])) =>
       loadSavedWorkflow(localStorage) =
         [result |-> <<localStorage[1].value>>, console |-> <<>>, threw |-> FALSE]
  /\ RoundTrip

\* C10, amended: a stored object in which nodes, edges and timestamp are
\* present and the timestamp is not the empty text is returned unchanged,
\* and a write is read back.
C10_RecordWithTimestampIsReturned ==
  /\ (/\ localStorage # <<>>
      /\ HasAllKeys(localStorage[1])
      /\ localStorage[1].value.timestamp # <<>>) =>
       loadSavedWorkflow(localStorage) =
         [result |-> <<localStorage[1].value>>, console |-> <<>>, threw |-> FALSE]
  /\ RoundTrip

\* a workflow has been written and is read back
C10_Witness ==
  \E w \in Writes :
    /\ w.ok
    /\ w.item.value.nodes # <<>>
    /\ Persisted(localStorage) = <<w.item.value>>

\* the stored items the runs of the save effect in the last step were given,
\* and the one stored now
SeenStorage == {localStorage} \cup {run.stored : run \in Effects}

\* the run of the effect read the storage (lines 201-209)
Loaded(run) == run.isValid

C12_UnparseableValueIsReportedAsError ==
  \A store \in SeenStorage :
    (store # <<>> /\ store[1].kind \in {"empty", "text"}) =>
      loadSavedWorkflow(store) = [result |-> <<>>, console |-> <<"error">>, threw |-> FALSE]

\* C12, amended: every non-empty stored value that is not parseable as JSON
\* makes loadSavedWorkflow return null and report an error, and nothing is
\* thrown past the loader; the empty text is taken for a missing value, with
\* nothing reported.
C12_NonEmptyUnparseableValueIsReportedAsError ==
  \A store \in SeenStorage :
    /\ (store # <<>> /\ store[1].kind = "text") =>
         loadSavedWorkflow(store) = [result |-> <<>>, console |-> <<"error">>, threw |-> FALSE]
    /\ (store # <<>> /\ store[1].kind = "empty") =>
         loadSavedWorkflow(store) = [result |-> <<>>, console |-> <<>>, threw |-> FALSE]

\* the save effect has loaded a text that is not JSON, and the error is on
\* the console
C12_Witness ==
  \E run \in Effects :
    /\ Loaded(run)
    /\ run.stored = <<CorruptItem>>
    /\ step.console = <<"error">>

\* C13: with nothing stored under the key, at the start or after clearSaved,
\* loadSavedWorkflow returns null and reports neither an error nor a warning.
C13_AbsentValueIsSilentlyNull ==
  /\ \A store \in SeenStorage :
       store = <<>> =>
         loadSavedWorkflow(store) = [result |-> <<>>, console |-> <<>>, threw |-> FALSE]
  /\ step.cleared =>
       loadSavedWorkflow(localStorage) = [result |-> <<>>, console |-> <<>>, threw |-> FALSE]

\* the save effect has loaded from a storage without the item, and the console
\* is empty
C13_Witness ==
  \E run \in Effects :
    /\ Loaded(run)
    /\ run.stored = <<>>
    /\ step.console = <<>>

\* the timer a run of the effect starts at the time of the step, for the
\* nodes, edges and isValid the hook is rendered with
StartedBy(t, ns, es, valid) ==
  [due |-> t + DEBOUNCE_DELAY, since |-> t, isValid |-> valid, nodes |-> ns, edges |-> es]

\* a step that renders the hook with changed inputs
InputChange == edits' = edits + 1

\* C30: in every state of the controller at most one save debounce timer is
\* pending, and after every input change no timer of before the change is
\* left: either none is pending or the only one is the one this change
\* started.
C30_ChangeLeavesOnlyItsOwnTimer ==
  /\ [](Len(saveTimers) <= 1)
  /\ [][InputChange =>
          \/ saveTimers' = <<>>
          \/ saveTimers' = <<StartedBy(now, nodes', edges', isWorkflowValid')>>]_vars

\* a change while a timer of an earlier time was pending: the timer pending
\* now is the one the change started
C30_Witness ==
  /\ Effects # {}
  /\ step.before.saveStatus = "saving"
  /\ edits >= 2
  /\ now > 0
  /\ saveTimers = <<StartedBy(now, nodes, edges, isWorkflowValid)>>

\* a write has failed and nodes, edges and isValid are what they were then:
\* the status is 'error' although the inputs are valid
FailureStands(status, valid) == status = "error" /\ valid

\* the step began while the failure of a write stood
AfterFailedWrite == FailureStands(step.before.saveStatus, step.before.isValid)

\* the failure of a write stands only from that write on
FailureComesFromAWrite ==
  /\ \A w \in Writes : ~w.ok => FailureStands(saveStatus, isWorkflowValid) /\ saveTimers = <<>>
  /\ (FailureStands(saveStatus, isWorkflowValid) /\ ~AfterFailedWrite) =>
       \E w \in Writes : ~w.ok

\* the change has started a fresh debounce
FreshDebounce ==
  /\ saveStatus = "saving"
  /\ saveTimers = <<StartedBy(now, nodes, edges, isWorkflowValid)>>

AfterDiscard == step.before.saveStatus = "idle"

\* C35: clearSaved leaves no record and the status 'idle', and in every step
\* after it that does not change nodes, edges or isValid nothing is written,
\* the record stays absent and the status stays 'idle'.
C35_DiscardStandsUntilTheNextChange ==
  /\ step.cleared => localStorage = <<>> /\ saveStatus = "idle"
  /\ (AfterDiscard /\ Effects = {}) =>
       Writes = {} /\ localStorage = <<>> /\ saveStatus = "idle"

\* the same for a discard at which no write timer was pending; the timer
\* that was pending is left to fire
C35_DiscardStandsWhenNoWriteWasPending ==
  /\ step.cleared => localStorage = <<>> /\ saveStatus = "idle"
  /\ (AfterDiscard /\ Effects = {} /\ step.before.saveTimers = <<>>) =>
       Writes = {} /\ localStorage = <<>> /\ saveStatus = "idle"
  /\ step.cleared => saveTimers = step.before.saveTimers

\* C36: whenever the status is 'saved', a persisted record exists, its nodes
\* and edges are content-equal to the nodes and edges the controller was last
\* given, and lastSaved is not null.
C36_SavedMeansPersistedAndCurrent ==
  saveStatus = "saved" =>
    /\ Persisted(localStorage) # <<>>
    /\ ContentEqual(nodes, edges, Persisted(localStorage)[1])
    /\ lastSaved # <<>>

\* a write has just replaced the record and the status is 'saved'
C36_Witness ==
  /\ saveStatus = "saved"
  /\ nodes # <<>>
  /\ lastSaved = <<now>>
  /\ localStorage # step.before.localStorage
  /\ step.before.localStorage # <<>>

\* C37: whenever the status is 'saving', exactly one save timer is pending,
\* and the handle the hook keeps is that timer's.
C37_SavingMeansOneTimerPending ==
  saveStatus = "saving" => Len(saveTimers) = 1 /\ saveTimeoutRef = "last"

\* 'saving' after a change that came while the status was 'saving' already
C37_Witness ==
  /\ saveStatus = "saving"
  /\ Effects # {}
  /\ step.before.saveStatus = "saving"
  /\ step.before.saveTimers # <<>>
  /\ Len(saveTimers) = 1

\* C38: the stored item is another after a step only if the step was a
\* successful write of the save timer or a call of clearSaved; a run of the
\* effect, whatever status it ends in, reads the item as it was and leaves
\* it, and so does a write that fails.
C38_OnlyWritesAndDiscardChangeTheRecord ==
  /\ localStorage # step.before.localStorage =>
       \/ step.cleared
       \/ \E w \in Writes : w.ok /\ localStorage = <<w.item>>
  /\ \A run \in Effects :
       /\ run.stored = step.before.localStorage
       /\ localStorage = step.before.localStorage
  /\ \A w \in Writes : ~w.ok => localStorage = step.before.localStorage

\* a write has failed and the record of before is still there
C38_Witness ==
  /\ \E w \in Writes : ~w.ok
  /\ Persisted(localStorage) # <<>>
  /\ localStorage = step.before.localStorage
  /\ saveStatus = "error"

\* ------------------------------------------------------------------------
\* Properties of the editor and its controller together (Spec, LiveSpec)
\* ------------------------------------------------------------------------

\* no validation pass has completed since the editor was mounted: errors and
\* isValid are what useState gave them (lines 197-198); a pass leaves errors,
\* or isValid = true
BeforeFirstPass == validationErrors = <<>> /\ ~isWorkflowValid

\* the user has neither restored nor discarded the record found at mount
Undecided == savedWorkflowData # <<>>

\* until the first validation pass no save timer is started and nothing is
\* written, and an empty graph is never written
NothingIsSavedBeforeValidation ==
  /\ BeforeFirstPass =>
       /\ saveTimers = <<>> /\ Writes = {}
       /\ \A run \in Effects : ~run.isValid /\ run.timers = <<>>
  /\ \A w \in Writes : w.item.value.nodes # <<>>

\* C39, as the claim states it: until the first validation pass isValid is
\* false, no save timer is started and nothing is written; an empty graph is
\* never written; and the record found at mount is the stored one for as
\* long as the user has neither restored nor discarded it.
C39_RecordSurvivesUntilRestoreOrDiscard ==
  /\ NothingIsSavedBeforeValidation
  /\ Undecided => Persisted(localStorage) = savedWorkflowData

\* C39, amended: the same, the record found at mount being the stored one
\* for as long as the restore dialog is open.
C39_RecordSurvivesWhileThePromptIsOpen ==
  /\ NothingIsSavedBeforeValidation
  /\ DialogOpen => Persisted(localStorage) = savedWorkflowData

\* the page was loaded again on a stored record, time has passed, the first
\* pass is still to come and the prompt is open
C39_Witness ==
  /\ BeforeFirstPass
  /\ DialogOpen
  /\ edits >= 1
  /\ Persisted(localStorage) # <<>>
  /\ now >= DEBOUNCE_DELAY

\* the validation timer is due: validationTimerFires can be taken
ValidationDue == validationTimers # <<>> /\ Head(validationTimers).due <= now

\* The editor with its timers and its clock running: a timer that is due
\* fires, and time passes as long as the clock has not stopped.  For the
\* validation timer, weak fairness is stated on the guard of its action: the
\* timer does not stay due for ever.
LiveSpec ==
  /\ Init /\ [][Next]_vars
  /\ []<>~ValidationDue
  /\ WF_vars(\E setItemSucceeds \in BOOLEAN : saveTimerFires(setItemSucceeds))
  /\ WF_vars(tick)

\* a step of a timer or of the clock: no event of the user (each counts as an
\* edit, or closes the restore dialog) and no reload (which empties the canvas)
TimersOnly ==
  /\ edits' = edits
  /\ showRestoreDialog' = showRestoreDialog
  /\ ~(nodes # <<>> /\ nodes' = <<>>)

\* no write of the step has failed
WritesSucceed == \A w \in Writes : w.ok

\* no pending timer is due after the clock stops
TimersWithinHorizon == \A t \in DueTimes : t <= MaxTime

\* the graph on the canvas is valid
GraphValid == validateWorkflow(nodes, edges).isValid

\* the status is 'saved' and the persisted record is content-equal to the
\* nodes and edges on the canvas
SavedAsItStands ==
  /\ saveStatus = "saved"
  /\ Persisted(localStorage) # <<>>
  /\ ContentEqual(nodes, edges, Persisted(localStorage)[1])

\* C34: if from some point on the graph is valid and only the timers and
\* the clock act, and every write succeeds (and the clock does not stop before
\* a pending timer is due), then from some point on the status is 'saved'
\* and the persisted record is content-equal to the final nodes and edges.
C34_QuietValidGraphGetsSaved ==
  ([]TimersWithinHorizon /\ []WritesSucceed /\ <>[]GraphValid /\ <>[][TimersOnly]_vars)
    => <>[]SavedAsItStands

\* an edited, valid graph has been validated and written, and nothing is
\* pending
C34_Witness ==
  /\ SavedAsItStands
  /\ GraphValid
  /\ restored = <<>>
  /\ edits >= 1
  /\ validationTimers = <<>> /\ saveTimers = <<>>
  /\ now >= DEBOUNCE_DELAY

\* ------------------------------------------------------------------------
\* The validator alone: validateWorkflow applied to every graph of a bounded
\* family (validation.ts lines 390-418, validation.test.ts)
\* ------------------------------------------------------------------------

\* the largest graph: that many nodes, that many edges
MaxGraphNodes == 3
MaxGraphEdges == 3

\* the blocks a graph is made of: a Start, an End, a Form and an API call that
\* pass their field rules, an API call without URL, and a Conditional that
\* passes its field rules
BlockKinds == <<"start", "end", "form", "api", "api-no-url", "conditional">>

GoodForm ==
  [label |-> "Form", customName |-> <<"F","o","r","m">>,
   fields |-> <<[id |-> "f1", name |-> <<"a","b">>, label |-> <<"A","b">>,
                 type |-> "string", required |-> FALSE]>>]

GoodConditional ==
  [label |-> "Conditional", customName |-> <<"C","o","n","d">>,
   fieldToEvaluate |-> <<"a","b">>, operator |-> "equals", value |-> <<"1">>]

\* the node a test puts at place i of the nodes array
Block(kind, i) ==
  [id |-> ToString(i),
   type |-> IF kind = "api-no-url" THEN "api" ELSE kind,
   position |-> [x |-> 0, y |-> 0],
   data |-> CASE kind = "form" -> GoodForm
              [] kind = "conditional" -> GoodConditional
              [] kind = "api" -> [label |-> "API", url |-> GoodUrl, method |-> "POST"]
              [] kind = "api-no-url" -> [label |-> "API", url |-> EmptyText, method |-> "POST"]
              [] kind = "start" -> [label |-> "Start"]
              [] OTHER -> [label |-> "End"]]

\* the nodes arrays: up to MaxGraphNodes blocks, listed in the order of
\* BlockKinds (the validators read the array through filters and the id
\* sets only, so the order of unlike blocks is immaterial to them)
GraphNodes ==
  UNION {
    {[i \in 1..n |-> Block(BlockKinds[pick[i]], i)] :
       pick \in {f \in [1..n -> 1..Len(BlockKinds)] :
                    \A i \in 1..n, j \in 1..n : i < j => f[i] <= f[j]}} :
    n \in 0..MaxGraphNodes}

\* the source handles an edge may name
Handles == <<Null, "true", "false">>

\* the nodes of the complete workflow test: Start, Form, API, End
CompleteWorkflowNodes ==
  <<Block("start", 1), Block("form", 2), Block("api", 3), Block("end", 4)>>

\* two Form nodes, each with a field without name, whose ids hold hyphens:
\* node a with field field-b, node a-field with field b
HyphenatedIdNodes ==
  <<[id |-> "a", type |-> "form", position |-> [x |-> 0, y |-> 0],
     data |-> [label |-> "Form", customName |-> <<"F","o","r","m">>,
               fields |-> <<[id |-> "field-b", name |-> <<>>, label |-> <<"A","b">>,
                             type |-> "string", required |-> FALSE]>>]],
    [id |-> "a-field", type |-> "form", position |-> [x |-> 0, y |-> 0],
     data |-> [label |-> "Form", customName |-> <<"F","o","r","m">>,
               fields |-> <<[id |-> "b", name |-> <<>>, label |-> <<"A","b">>,
                             type |-> "string", required |-> FALSE]>>]]>>

\* every connection the nodes allow, as triples <<i, j, h>>: from node i to
\* a different node j, from handle Handles[h] of node i; listed by source,
\* then target, then handle
Connections(ns) ==
  LET n == Len(ns)
      all == [r \in 1..(n * n * Len(Handles)) |->
                <<((r - 1) \div (n * Len(Handles))) + 1,
                  (((r - 1) \div Len(Handles)) % n) + 1,
                  ((r - 1) % Len(Handles)) + 1>>]
      Allowed(t) == t[1] # t[2] /\ Handles[t[3]] \in SourceHandles(ns[t[1]].type)
  IN SelectSeq(all, Allowed)

\* the strictly increasing sequences over 1..n of at most k numbers
RECURSIVE Increasing(_, _)
Increasing(n, k) ==
  IF k = 0 THEN {<<>>}
  ELSE LET shorter == Increasing(n, k - 1)
           longest == {s \in shorter : Len(s) = k - 1}
       IN shorter \cup
          UNION {{Append(s, x) : x \in ((IF s = <<>> THEN 0 ELSE s[Len(s)]) + 1)..n} :
                   s \in longest}

\* the edge of a connection, as a test writes it
EdgeOf(ns, t) ==
  LET params == [source |-> ns[t[1]].id, sourceHandle |-> Handles[t[3]],
                 target |-> ns[t[2]].id, targetHandle |-> Null]
  IN Spread(params, [id |-> EdgeId(params)])

\* the edges arrays over the nodes ns: up to MaxGraphEdges of the
\* connections, or all of them
GraphEdges(ns) ==
  LET cs == Connections(ns)
  IN {[m \in 1..Len(pick) |-> EdgeOf(ns, cs[pick[m]])] :
        pick \in Increasing(Len(cs), MaxGraphEdges) \cup {[m \in 1..Len(cs) |-> m]}}

\* a test calls validateWorkflow(nodes, edges) and keeps the result
callValidateWorkflow ==
  /\ edits = 0
  /\ edits' = 1
  /\ LET result == validateWorkflow(nodes, edges)
     IN /\ validationErrors' = result.errors
        /\ isWorkflowValid' = result.isValid
  /\ UNCHANGED <<nodes, edges, validationTimers, validationTimeoutId, savedWorkflowData,
                 showRestoreDialog, saveStatus, lastSaved, saveTimers, saveTimeoutRef,
                 nodesRef, edgesRef, localStorage, now, nextId, restored, step,
                 suggestions>>

ValidatorInit ==
  /\ nodes \in GraphNodes \cup {CompleteWorkflowNodes, HyphenatedIdNodes}
  /\ edges \in GraphEdges(nodes)
  /\ validationErrors = <<>> /\ isWorkflowValid = FALSE
  /\ edits = 0
  /\ nodesRef = nodes /\ edgesRef = edges
  /\ localStorage = <<>> /\ now = 0 /\ nextId = 0 /\ restored = <<>>
  /\ suggestions = NoSuggestions
  /\ validationTimers = <<>> /\ validationTimeoutId = "null"
  /\ savedWorkflowData = <<>> /\ showRestoreDialog = FALSE
  /\ saveStatus = "idle" /\ lastSaved = <<>>
  /\ saveTimers = <<>> /\ saveTimeoutRef = "null"
  /\ step = [effects |-> <<>>, writes |-> <<>>, console |-> <<>>, cleared |-> FALSE,
             before |-> [saveStatus |-> "idle", lastSaved |-> <<>>,
                         localStorage |-> <<>>,
                         isValid |-> FALSE, saveTimers |-> <<>>]]

ValidatorNext == callValidateWorkflow

ValidatorSpec == ValidatorInit /\ [][ValidatorNext]_vars

\* validateWorkflow has been applied to the nodes and edges of the state
Validated == edits = 1

\* C14: validateWorkflow answers isValid = true exactly when the errors it
\* returns, node errors and structure errors together, are none.
C14_ValidIffNoErrors ==
  Validated =>
    (isWorkflowValid <=> validationErrors = <<>>)

\* a graph whose structure is sound and whose only error is the missing URL
\* of an API node has been validated, and is not valid
C14_Witness ==
  /\ Validated
  /\ validateWorkflowStructure(nodes, edges) = <<>>
  /\ Len(validationErrors) = 1
  /\ ~isWorkflowValid

\* the places of the nodes of type t in the nodes array
Places(t) == {i \in 1..Len(nodes) : nodes[i].type = t}

\* the ids that a path of edges leads to from the ids in S, S included
RECURSIVE Descendants(_)
Descendants(S) ==
  LET next == S \cup {edges[i].target : i \in {j \in 1..Len(edges) : edges[j].source \in S}}
  IN IF next = S THEN S ELSE Descendants(next)

\* C15: a graph that validateWorkflow finds valid has exactly one Start node,
\* exactly one End node, at least one node of another type, and every node,
\* the End node included, is reachable from the Start node along the edges.
C15_ValidGraphIsWellFormed ==
  (Validated /\ isWorkflowValid) =>
    /\ Cardinality(Places("start")) = 1
    /\ Cardinality(Places("end")) = 1
    /\ \E i \in 1..Len(nodes) : nodes[i].type \notin {"start", "end"}
    /\ \A s \in Places("start") :
         \A i \in 1..Len(nodes) : nodes[i].id \in Descendants({nodes[s].id})

\* a graph of a Start, a Conditional and an End node has been found valid
C15_Witness ==
  /\ Validated /\ isWorkflowValid
  /\ Len(nodes) = 3
  /\ Places("conditional") # {}

\* the edges out of, and into, the node with the given id
Outgoing(id) == {i \in 1..Len(edges) : edges[i].source = id}
Incoming(id) == {i \in 1..Len(edges) : edges[i].target = id}

\* the graph is a linear chain: one Start, one End, at least one node between
\* them, and the edges are exactly those from each node of the chain to the
\* next
LinearChain ==
  /\ Cardinality(Places("start")) = 1
  /\ Cardinality(Places("end")) = 1
  /\ Len(nodes) >= 3
  /\ Len(edges) = Len(nodes) - 1
  /\ \A i \in 1..Len(nodes) :
       /\ Cardinality(Outgoing(nodes[i].id)) = (IF nodes[i].type = "end" THEN 0 ELSE 1)
       /\ Cardinality(Incoming(nodes[i].id)) = (IF nodes[i].type = "start" THEN 0 ELSE 1)
  /\ \A s \in Places("start") :
       \A i \in 1..Len(nodes) : nodes[i].id \in Descendants({nodes[s].id})

\* every Form node and every API node passes its field rules
FormAndApiNodesPass ==
  \A i \in 1..Len(nodes) :
    /\ nodes[i].type = "form" => validateFormNode(nodes[i]) = <<>>
    /\ nodes[i].type = "api" => validateApiNode(nodes[i]) = <<>>

\* C16 as stated: every linear chain from Start through work nodes of any
\* type to End, whose Form and API nodes pass their field rules, is valid
\* with zero errors.
C16_ChainOfWorkNodesIsValid ==
  (Validated /\ LinearChain /\ FormAndApiNodesPass) =>
    (isWorkflowValid /\ validationErrors = <<>>)

\* C16, amended: every linear chain from Start through Form and API nodes to
\* End, whose Form and API nodes pass their field rules, is valid with zero
\* errors; a Conditional node in a chain has one outgoing edge, and lacks a
\* route.
C16_ChainOfFormAndApiNodesIsValid ==
  (Validated /\ LinearChain /\ FormAndApiNodesPass) =>
    IF Places("conditional") = {}
      THEN isWorkflowValid /\ validationErrors = <<>>
      ELSE ~isWorkflowValid

\* the chain Start -> Form -> API -> End of the complete workflow test has
\* been validated
C16_Witness ==
  /\ Validated /\ LinearChain /\ FormAndApiNodesPass
  /\ nodes = CompleteWorkflowNodes
  /\ \E i \in 1..Len(edges) : edges[i].source = "2" /\ edges[i].target = "3"
  /\ isWorkflowValid

\* how many of the errors returned carry the message
Emitted(message) ==
  Cardinality({i \in 1..Len(validationErrors) : validationErrors[i].message = message})

NoWorkNodesMessage ==
  "Workflow must contain at least one Form, API, or Conditional block between Start and End"

\* C17: the 'no work nodes' error is emitted, once, exactly when the graph
\* has one Start node, one End node and no node of another type; it is not
\* emitted when the number of Start or of End nodes is not one.
C17_NoWorkNodesErrorIffBareStartEnd ==
  Validated =>
    Emitted(NoWorkNodesMessage) =
      (IF /\ Cardinality(Places("start")) = 1
          /\ Cardinality(Places("end")) = 1
          /\ Len(nodes) = 2
         THEN 1 ELSE 0)

\* a Start node connected to an End node, and nothing else, has been
\* validated: the error is there
C17_Witness ==
  /\ Validated
  /\ Len(nodes) = 2 /\ Places("start") # {} /\ Places("end") # {}
  /\ Len(edges) = 1
  /\ Emitted(NoWorkNodesMessage) = 1

\* the messages of the count checks for the terminal type named Start or End
MissingMessage(name) == "Workflow must have exactly one " \o name \o " block"

MultipleMessage(name, n) ==
  "Workflow has " \o ToString(n) \o " " \o name \o " blocks, but must have exactly one"

\* the errors of the count check of the terminal type: those with one of its ids
CountErrors(type) ==
  {i \in 1..Len(validationErrors) :
     validationErrors[i].id \in {"workflow-no-" \o type, "workflow-multiple-" \o type \o "s"}}

\* the count errors are as C18 says for the terminal type with n nodes
CountChecked(type, name) ==
  LET n == Cardinality(Places(type))
  IN /\ Cardinality(CountErrors(type)) = (IF n = 1 THEN 0 ELSE 1)
     /\ Emitted(MissingMessage(name)) = (IF n = 0 THEN 1 ELSE 0)
     /\ Emitted(MultipleMessage(name, n)) = (IF n > 1 THEN 1 ELSE 0)

\* C18: for Start, and for End: without a node of the type there is exactly
\* one 'must have exactly one ... block' error; with N > 1 nodes exactly one
\* error that tells N and says 'must have exactly one'; with one node no
\* count error.
C18_TerminalCounts ==
  Validated => (CountChecked("start", "Start") /\ CountChecked("end", "End"))

\* a graph with several Start nodes and no End node has been validated
C18_Witness ==
  /\ Validated
  /\ Cardinality(Places("start")) > 1
  /\ Places("end") = {}
  /\ Len(nodes) = MaxGraphNodes
  /\ Emitted(MultipleMessage("Start", Cardinality(Places("start")))) = 1
  /\ Emitted(MissingMessage("End")) = 1

\* the edges out of the handle of the node with the given id
Routes(id, handle) == {i \in Outgoing(id) : edges[i].sourceHandle = handle}

\* the errors with the given id that are scoped to the node
RouteErrors(node, id) ==
  {i \in 1..Len(validationErrors) :
     /\ validationErrors[i].id = id
     /\ "nodeId" \in DOMAIN validationErrors[i]
     /\ validationErrors[i].nodeId = node.id}

RouteMessage(node, route) ==
  "Conditional \"" \o Text(node.data.customName) \o "\" is missing " \o route
    \o " route connection"

\* C19: for every Conditional node there is exactly one 'missing TRUE route'
\* error scoped to it when no edge leaves its handle 'true', and none
\* otherwise; and the same, independently, for 'false'.
C19_RouteErrorPerMissingHandle ==
  Validated =>
    \A c \in Places("conditional") :
      /\ Cardinality(RouteErrors(nodes[c], nodes[c].id \o "-route-true-missing")) =
           (IF Routes(nodes[c].id, "true") = {} THEN 1 ELSE 0)
      /\ Cardinality(RouteErrors(nodes[c], nodes[c].id \o "-route-false-missing")) =
           (IF Routes(nodes[c].id, "false") = {} THEN 1 ELSE 0)
      /\ \A i \in RouteErrors(nodes[c], nodes[c].id \o "-route-true-missing") :
           validationErrors[i].message = RouteMessage(nodes[c], "TRUE")
      /\ \A i \in RouteErrors(nodes[c], nodes[c].id \o "-route-false-missing") :
           validationErrors[i].message = RouteMessage(nodes[c], "FALSE")

\* two Conditional nodes have been validated, one with a TRUE route only, the
\* other with a FALSE route only
C19_Witness ==
  /\ Validated
  /\ \E c, d \in Places("conditional") :
       /\ Routes(nodes[c].id, "true") # {} /\ Routes(nodes[c].id, "false") = {}
       /\ Routes(nodes[d].id, "true") = {} /\ Routes(nodes[d].id, "false") # {}
       /\ RouteErrors(nodes[c], nodes[c].id \o "-route-false-missing") # {}
       /\ RouteErrors(nodes[d], nodes[d].id \o "-route-true-missing") # {}

\* C20 as stated: in a valid graph every Conditional node has exactly one
\* edge out of its handle 'true' and exactly one out of its handle 'false'.
C20_ValidGraphHasExactlyOneEdgePerRoute ==
  (Validated /\ isWorkflowValid) =>
    \A c \in Places("conditional") :
      /\ Cardinality(Routes(nodes[c].id, "true")) = 1
      /\ Cardinality(Routes(nodes[c].id, "false")) = 1

\* C20, amended: in a valid graph every Conditional node has at least one
\* edge out of its handle 'true' and at least one out of its handle 'false';
\* a second edge out of the same handle is not an error.
C20_ValidGraphHasAnEdgePerRoute ==
  (Validated /\ isWorkflowValid) =>
    \A c \in Places("conditional") :
      /\ Cardinality(Routes(nodes[c].id, "true")) >= 1
      /\ Cardinality(Routes(nodes[c].id, "false")) >= 1

\* a graph whose Conditional node has two edges out of one handle has been
\* found valid
C20_Witness ==
  /\ Validated /\ isWorkflowValid
  /\ \E c \in Places("conditional") :
       \E h \in {"true", "false"} : Cardinality(Routes(nodes[c].id, h)) = 2

\* the message of the error for a node that Start does not reach
NotReachableMessage(node) == "\"" \o NodeName(node) \o "\" is not reachable from Start block"

\* C21: in a graph with exactly one Start and exactly one End there is exactly
\* one 'not reachable' error for each node other than Start to which no path
\* of edges leads from Start, and none for a node that Start reaches.
C21_OneErrorPerUnreachedNode ==
  (Validated /\ Cardinality(Places("start")) = 1 /\ Cardinality(Places("end")) = 1) =>
    \A s \in Places("start") :
      \A i \in 1..Len(nodes) :
        LET found == RouteErrors(nodes[i], nodes[i].id \o "-not-reachable")
        IN /\ Cardinality(found) =
                (IF nodes[i].id \in Descendants({nodes[s].id}) THEN 0 ELSE 1)
           /\ \A e \in found : validationErrors[e].message = NotReachableMessage(nodes[i])

\* Start is connected to End, the third node has no incoming edge: it has
\* its error, End has none
C21_Witness ==
  /\ Validated /\ Cardinality(Places("start")) = 1 /\ Cardinality(Places("end")) = 1
  /\ Len(nodes) = 3
  /\ \E i \in 1..Len(nodes) :
       /\ Incoming(nodes[i].id) = {} /\ Outgoing(nodes[i].id) # {}
       /\ RouteErrors(nodes[i], nodes[i].id \o "-not-reachable") # {}
  /\ \A e \in Places("end") : RouteErrors(nodes[e], nodes[e].id \o "-not-reachable") = {}

\* the errors of the connectivity checks among those returned
ConnectivityFindings ==
  {i \in 1..Len(validationErrors) :
     \/ validationErrors[i].id \in {"workflow-start-no-outgoing", "workflow-end-no-incoming"}
     \/ validationErrors[i].id \in {nodes[n].id \o "-not-reachable" : n \in 1..Len(nodes)}
     \/ validationErrors[i].message \in
          {"Start block has no outgoing connections", "End block has no incoming connections"}
            \cup {NotReachableMessage(nodes[n]) : n \in 1..Len(nodes)}}

\* C22: when the number of Start nodes or of End nodes is not one, there is no
\* connectivity error: none for Start without outgoing edge, none for End
\* without incoming edge, none for an unreached node.
C22_NoConnectivityErrorsWithoutUniqueTerminals ==
  (Validated /\ (Cardinality(Places("start")) # 1 \/ Cardinality(Places("end")) # 1)) =>
    ConnectivityFindings = {}

\* two Start nodes, one End node and no edge have been validated
C22_Witness ==
  /\ Validated
  /\ Cardinality(Places("start")) = 2 /\ Cardinality(Places("end")) = 1
  /\ edges = <<>>
  /\ validationErrors # <<>>
  /\ ConnectivityFindings = {}

\* ------------------------------------------------------------------------
\* The resolver alone: getReachableFields applied to every node of every graph
\* of a bounded family (getReachableFields.test.ts)
\* ------------------------------------------------------------------------

\* createFormNode (lines 8-25): a Form node whose fields have the given names
createFormNode(id, fieldNames) ==
  [id |-> id, type |-> "form", position |-> [x |-> 0, y |-> 0],
   data |-> [label |-> "Form", customName |-> <<"F","o","r","m">>,
             fields |-> [i \in 1..Len(fieldNames) |->
                           [id |-> id \o "-field-" \o ToString(i - 1),
                            name |-> fieldNames[i], label |-> fieldNames[i],
                            type |-> "string", required |-> FALSE]]]]

\* createConditionalNode (lines 27-40)
createConditionalNode(id) ==
  [id |-> id, type |-> "conditional", position |-> [x |-> 0, y |-> 0],
   data |-> [label |-> "Conditional", customName |-> <<"C","o","n","d">>,
             fieldToEvaluate |-> <<>>, operator |-> "equals", value |-> <<>>]]

\* the nodes a graph of the family is made of: a Conditional, and Forms with
\* fields a,b; a,c; and an empty name followed by c
ResolverKinds == <<"conditional", "form-ab", "form-ac", "form-blank-c">>

ResolverNode(kind, id) ==
  CASE kind = "form-ab" -> createFormNode(id, << <<"a">>, <<"b">> >>)
    [] kind = "form-ac" -> createFormNode(id, << <<"a">>, <<"c">> >>)
    [] kind = "form-blank-c" -> createFormNode(id, << <<>>, <<"c">> >>)
    [] OTHER -> createConditionalNode(id)

\* the nodes arrays: one to MaxGraphNodes nodes, in the order of ResolverKinds
\* (the resolver finds the nodes by id)
ResolverNodes ==
  UNION {
    {[i \in 1..n |-> ResolverNode(ResolverKinds[pick[i]], ToString(i))] :
       pick \in {f \in [1..n -> 1..Len(ResolverKinds)] :
                    \A i \in 1..n, j \in 1..n : i < j => f[i] <= f[j]}} :
    n \in 1..MaxGraphNodes}

\* Start -> Form1 with a,b -> Form2 with a,c -> Conditional (lines 43-59, and
\* the chain the specification names)
ChainNodes ==
  <<[id |-> "start", type |-> "start", position |-> [x |-> 0, y |-> 0],
     data |-> [label |-> "Start"]],
    createFormNode("form1", << <<"a">>, <<"b">> >>),
    createFormNode("form2", << <<"a">>, <<"c">> >>),
    createConditionalNode("cond1")>>

\* the edges arrays over the nodes ns: up to MaxGraphEdges of the edges from a
\* node to a node, itself included, or all of them; listed by source, then
\* target
ResolverEdges(ns) ==
  LET n == Len(ns)
      EdgeNumber(r) ==
        [id |-> "e" \o ToString(r),
         source |-> ns[((r - 1) \div n) + 1].id,
         target |-> ns[((r - 1) % n) + 1].id]
  IN {[m \in 1..Len(pick) |-> EdgeNumber(pick[m])] :
        pick \in Increasing(n * n, MaxGraphEdges) \cup {[m \in 1..(n * n) |-> m]}}

\* the field input of the node asks for the names it may suggest
callGetReachableFields(nodeId) ==
  /\ edits = 0
  /\ edits' = 1
  /\ suggestions' = [nodeId |-> nodeId,
                     fieldNames |-> getReachableFields(nodeId, nodes, edges)]
  /\ UNCHANGED <<nodes, edges, validationErrors, isWorkflowValid, validationTimers,
                 validationTimeoutId, savedWorkflowData, showRestoreDialog, saveStatus,
                 lastSaved, saveTimers, saveTimeoutRef, nodesRef, edgesRef, localStorage,
                 now, nextId, restored, step>>

ResolverInit ==
  /\ nodes \in ResolverNodes \cup {ChainNodes}
  /\ edges \in ResolverEdges(nodes)
  /\ suggestions = NoSuggestions
  /\ validationErrors = <<>> /\ isWorkflowValid = FALSE
  /\ edits = 0
  /\ nodesRef = nodes /\ edgesRef = edges
  /\ localStorage = <<>> /\ now = 0 /\ nextId = 0 /\ restored = <<>>
  /\ validationTimers = <<>> /\ validationTimeoutId = "null"
  /\ savedWorkflowData = <<>> /\ showRestoreDialog = FALSE
  /\ saveStatus = "idle" /\ lastSaved = <<>>
  /\ saveTimers = <<>> /\ saveTimeoutRef = "null"
  /\ step = [effects |-> <<>>, writes |-> <<>>, console |-> <<>>, cleared |-> FALSE,
             before |-> [saveStatus |-> "idle", lastSaved |-> <<>>,
                         localStorage |-> <<>>,
                         isValid |-> FALSE, saveTimers |-> <<>>]]

ResolverNext == \E i \in 1..Len(nodes) : callGetReachableFields(nodes[i].id)

ResolverSpec == ResolverInit /\ [][ResolverNext]_vars

\* getReachableFields has been applied; Asked is the place of the node asked for
Resolved == edits = 1
Asked == CHOOSE i \in 1..Len(nodes) : nodes[i].id = suggestions.nodeId

\* the sources of the edges into the ids of S
Parents(S) == {edges[i].source : i \in {j \in 1..Len(edges) : edges[j].target \in S}}

RECURSIVE Upstream(_)
Upstream(S) == IF Parents(S) \subseteq S THEN S ELSE Upstream(S \cup Parents(S))

\* the ids from which a path of at least one edge leads to the id
AncestorsOf(id) == Upstream(Parents({id}))

\* the non-empty names of the fields of the node at place i, none when it is
\* not a Form node
NamesAt(i) ==
  IF nodes[i].type # "form" THEN {}
  ELSE {nodes[i].data.fields[f].name : f \in 1..Len(nodes[i].data.fields)} \ {<<>>}

\* the names in the answer
Suggested == {suggestions.fieldNames[k] : k \in 1..Len(suggestions.fieldNames)}

C24_TargetNamesAreNotSuggested ==
  Resolved =>
    \A name \in NamesAt(Asked) :
      (\A i \in 1..Len(nodes) : i # Asked => name \notin NamesAt(i)) =>
        name \notin Suggested

\* the edges of the chain, as pairs of source and target
ChainEdges == {<<"start", "form1">>, <<"form1", "form2">>, <<"form2", "cond1">>}

\* the graph is the chain Start -> Form1 -> Form2 -> Conditional, and the
\* Conditional has been asked for
ChainResolved ==
  /\ Resolved
  /\ nodes = ChainNodes
  /\ {<<edges[i].source, edges[i].target>> : i \in 1..Len(edges)} = ChainEdges
  /\ Len(edges) = 3
  /\ suggestions.nodeId = "cond1"

\* C25 as stated: for the chain, the answer for the Conditional is a, b, c in
\* that order.
C25_ChainSuggestsABC ==
  ChainResolved => suggestions.fieldNames = << <<"a">>, <<"b">>, <<"c">> >>

\* C25, amended: for the chain, the answer for the Conditional is a, c, b:
\* the names of Form2, the nearer node, come first, then what Form1 adds;
\* no name is there twice.
C25_ChainSuggestsACB ==
  ChainResolved => suggestions.fieldNames = << <<"a">>, <<"c">>, <<"b">> >>

\* the chain has been resolved for its Conditional, with three names
C25_Witness == ChainResolved /\ Len(suggestions.fieldNames) = 3

\* every id the backward search puts on its queue, in order: the node asked
\* for (line 181), then every source it adds (line 191)
BackwardEnqueued(nodeId, es) ==
  <<nodeId>> \o BackwardSearch(es, [reachableNodeIds |-> {}, order |-> <<>>,
                                     queue |-> <<nodeId>>]).order

\* how often the id occurs in the sequence
Occurrences(id, seq) == Cardinality({k \in 1..Len(seq) : seq[k] = id})

\* C33: on every graph, with cycles, self-loops and parallel edges, the
\* backward search from the node asked for and the forward search from any
\* node come to an end having put every node id on the queue at most once.
C33_EachIdIsEnqueuedAtMostOnce ==
  Resolved =>
    \A i \in 1..Len(nodes) :
      /\ Occurrences(nodes[i].id, BackwardEnqueued(suggestions.nodeId, edges)) <= 1
      /\ \A j \in 1..Len(nodes) :
           Occurrences(nodes[i].id, ReachableFromStart(nodes[j].id, edges).enqueued) <= 1

\* the same, but for the node asked for, which the backward search may put
\* on the queue a second time
C33_OnlyTheTargetIsEnqueuedTwice ==
  Resolved =>
    \A i \in 1..Len(nodes) :
      /\ Occurrences(nodes[i].id, BackwardEnqueued(suggestions.nodeId, edges))
           <= (IF nodes[i].id = suggestions.nodeId THEN 2 ELSE 1)
      /\ \A j \in 1..Len(nodes) :
           Occurrences(nodes[i].id, ReachableFromStart(nodes[j].id, edges).enqueued) <= 1

\* ------------------------------------------------------------------------
\* The field validators alone: validateFormNode, validateConditionalNode and
\* validateApiNode applied to every node of a bounded family
\* (validation.ts lines 43-235 and 396-410)
\* ------------------------------------------------------------------------

\* the longest text typed into a field
MaxTextLen == 3

\* the texts of at most n characters over the given characters
TextsOver(chars, n) == UNION {[1..k -> chars] : k \in 0..n}

\* what is typed as a name, a label or a value: letters, spaces, hyphens
TypedTexts == TextsOver({"a", " ", "-"}, MaxTextLen)

\* what is typed as a URL: spaces or none, a scheme or what looks like one,
\* and a rest of letters, spaces and line breaks
TypedUrls ==
  {pad \o scheme \o rest :
     pad \in {<<>>, <<" ">>},
     scheme \in {<<>>, HttpPrefix, HttpsPrefix, SubSeq(HttpPrefix, 1, Len(HttpPrefix) - 1),
                 <<"f","t","p",":","/","/">>, <<"x">> \o HttpPrefix},
     rest \in TextsOver({"x", " ", "\n"}, MaxTextLen)}

\* a field that passes its rules, and the field under test
GoodField == [id |-> "f0", name |-> <<"o","k">>, label |-> <<"O","k">>,
              type |-> "string", required |-> FALSE]

TypedField(name, label) ==
  [id |-> "f1", name |-> name, label |-> label, type |-> "string", required |-> FALSE]

\* Form nodes: the field under test alone, or after a good field
FormInputs ==
  {[id |-> "1", type |-> "form", position |-> [x |-> 0, y |-> 0],
    data |-> [label |-> "Form", customName |-> customName, fields |-> before \o <<field>>]] :
     customName \in {<<>>, <<"F","o","r","m">>},
     before \in {<<>>, <<GoodField>>},
     field \in {TypedField(name, label) : name \in TypedTexts, label \in TypedTexts}}

\* Conditional nodes: any typed value or none, with an operator or without
ConditionalInputs ==
  {[id |-> "1", type |-> "conditional", position |-> [x |-> 0, y |-> 0],
    data |-> Spread(operator,
               Spread(value,
                 [label |-> "Conditional", customName |-> customName,
                  fieldToEvaluate |-> fieldToEvaluate]))] :
     customName \in {<<>>, <<"C","o","n","d">>},
     fieldToEvaluate \in {<<>>, <<"o","k">>},
     operator \in {<<>>, [operator |-> ""], [operator |-> "equals"],
                   [operator |-> "is_empty"], [operator |-> "contains"]},
     value \in {<<>>} \cup {[value |-> v] : v \in TypedTexts}}

\* API nodes: any typed URL, with a method or without
ApiInputs ==
  {[id |-> "1", type |-> "api", position |-> [x |-> 0, y |-> 0],
    data |-> [label |-> "API Call", url |-> url, method |-> method]] :
     url \in TypedUrls, method \in {"", "GET"}}

\* validateWorkflow's switch hands the node to its validator (lines 396-410)
callValidateNode ==
  /\ edits = 0
  /\ edits' = 1
  /\ validationErrors' = NodeErrors(nodes[1])
  /\ isWorkflowValid' = FALSE
  /\ UNCHANGED <<nodes, edges, validationTimers, validationTimeoutId, savedWorkflowData,
                 showRestoreDialog, saveStatus, lastSaved, saveTimers, saveTimeoutRef,
                 nodesRef, edgesRef, localStorage, now, nextId, restored, step,
                 suggestions>>

NodeInit ==
  /\ nodes \in {<<node>> : node \in FormInputs \cup ConditionalInputs \cup ApiInputs}
  /\ edges = <<>>
  /\ suggestions = NoSuggestions
  /\ validationErrors = <<>> /\ isWorkflowValid = FALSE
  /\ edits = 0
  /\ nodesRef = nodes /\ edgesRef = edges
  /\ localStorage = <<>> /\ now = 0 /\ nextId = 0 /\ restored = <<>>
  /\ validationTimers = <<>> /\ validationTimeoutId = "null"
  /\ savedWorkflowData = <<>> /\ showRestoreDialog = FALSE
  /\ saveStatus = "idle" /\ lastSaved = <<>>
  /\ saveTimers = <<>> /\ saveTimeoutRef = "null"
  /\ step = [effects |-> <<>>, writes |-> <<>>, console |-> <<>>, cleared |-> FALSE,
             before |-> [saveStatus |-> "idle", lastSaved |-> <<>>,
                         localStorage |-> <<>>,
                         isValid |-> FALSE, saveTimers |-> <<>>]]

NodeNext == callValidateNode

NodeSpec == NodeInit /\ [][NodeNext]_vars

\* the validator of the node's type has been applied to the node
NodeValidated(type) == edits = 1 /\ nodes[1].type = type

\* the errors returned for the given field of the node
ErrorsFor(field) ==
  {i \in 1..Len(validationErrors) : validationErrors[i].field = field}

\* the ids of those errors
IdsFor(field) == {validationErrors[i].id : i \in ErrorsFor(field)}

\* the places of the characters of the text that are not white space
Inked(text) == {i \in 1..Len(text) : text[i] \notin {" ", "\t", "\n"}}

\* the text is empty or white space only
Blank(text) == Inked(text) = {}

\* the text without the white space at its ends
Stripped(text) ==
  IF Blank(text) THEN <<>>
  ELSE LET first == CHOOSE i \in Inked(text) : \A j \in Inked(text) : i <= j
           last == CHOOSE i \in Inked(text) : \A j \in Inked(text) : i >= j
       IN [k \in 1..(last - first + 1) |-> text[first + k - 1]]

\* the first rule a field name fails: required, alphanumeric, minLength, or none
NameRule(name) ==
  IF Blank(name) THEN <<"required">>
  ELSE IF \E i \in 1..Len(name) : name[i] \notin AlnumChars THEN <<"alphanumeric">>
  ELSE IF Len(Stripped(name)) < 2 THEN <<"minLength">>
  ELSE <<>>

\* the first rule a field label fails: required, minLength, or none
LabelRule(label) ==
  IF Blank(label) THEN <<"required">>
  ELSE IF Len(Stripped(label)) < 2 THEN <<"minLength">>
  ELSE <<>>

\* C26: for every field of a Form node there is at most one error for its
\* name and at most one for its label, that of the first rule failed in the
\* order required, alphanumeric (name only), minimum trimmed length 2: a name
\* of one letter gets the min-length error, a name that is not blank and
\* holds a space gets the alphanumeric error whatever its length.
C26_FirstFailingRulePerField ==
  NodeValidated("form") =>
    \A k \in 1..Len(nodes[1].data.fields) :
      LET field == nodes[1].data.fields[k]
          stem == nodes[1].id \o "-field-" \o field.id
          nameErrors == ErrorsFor("field-" \o field.id \o "-name")
          labelErrors == ErrorsFor("field-" \o field.id \o "-label")
      IN /\ Cardinality(nameErrors) = Len(NameRule(field.name))
         /\ Cardinality(labelErrors) = Len(LabelRule(field.label))
         /\ \A i \in nameErrors :
              validationErrors[i].id = stem \o "-name-" \o NameRule(field.name)[1]
         /\ \A i \in labelErrors :
              validationErrors[i].id = stem \o "-label-" \o LabelRule(field.label)[1]

\* the second field of a Form has the name 'a a' and the label 'a': one
\* alphanumeric error for the name, one min-length error for the label
C26_Witness ==
  /\ NodeValidated("form")
  /\ Len(nodes[1].data.fields) = 2
  /\ nodes[1].data.fields[2].name = <<"a", " ", "a">>
  /\ nodes[1].data.fields[2].label = <<"a">>
  /\ IdsFor("field-f1-name") = {"1-field-f1-name-alphanumeric"}
  /\ IdsFor("field-f1-label") = {"1-field-f1-label-minLength"}

\* the value of the Conditional node is missing or blank
BlankValue == "value" \notin DOMAIN nodes[1].data \/ Blank(nodes[1].data.value)

\* the operator of the Conditional node is is_empty
OperatorIsEmpty ==
  "operator" \in DOMAIN nodes[1].data /\ nodes[1].data.operator = "is_empty"

\* C27: for a Conditional node with a blank value there is no error for the
\* field 'value' when the operator is is_empty, and exactly one when it is
\* anything else, a missing operator included.
C27_ValueRequiredUnlessIsEmpty ==
  (NodeValidated("conditional") /\ BlankValue) =>
    /\ Cardinality(ErrorsFor("value")) = (IF OperatorIsEmpty THEN 0 ELSE 1)
    /\ IdsFor("value") \subseteq {nodes[1].id \o "-value-required"}

\* a Conditional node without operator and with a value of one space has
\* its value error, next to the operator error
C27_Witness ==
  /\ NodeValidated("conditional")
  /\ "operator" \notin DOMAIN nodes[1].data
  /\ "value" \in DOMAIN nodes[1].data /\ nodes[1].data.value = <<" ">>
  /\ IdsFor("value") = {"1-value-required"}
  /\ IdsFor("operator") = {"1-operator-required"}

\* the text starts with http:// or https:// and goes on
HasSchemeAndMore(text) ==
  \E scheme \in {<<"h","t","t","p",":","/","/">>, <<"h","t","t","p","s",":","/","/">>} :
    /\ Len(text) > Len(scheme)
    /\ [k \in 1..Len(scheme) |-> text[k]] = scheme

\* the same, and the character after the scheme is not a line break
HasSchemeAndMoreOnItsLine(text) ==
  \E scheme \in {<<"h","t","t","p",":","/","/">>, <<"h","t","t","p","s",":","/","/">>} :
    /\ Len(text) > Len(scheme)
    /\ [k \in 1..Len(scheme) |-> text[k]] = scheme
    /\ text[Len(scheme) + 1] # "\n"

\* C28 as stated: an API node gets at most one error for 'url': the required
\* error exactly when the url is blank, the format error exactly when it is
\* not blank and, trimmed, does not start with http:// or https:// followed by
\* at least one character.
C28_UrlErrorByAnyCharacter ==
  NodeValidated("api") =>
    IdsFor("url") =
      (IF Blank(nodes[1].data.url) THEN {"1-url-required"}
       ELSE IF ~HasSchemeAndMore(Stripped(nodes[1].data.url)) THEN {"1-url-invalid"}
       ELSE {})

\* C28, amended: as stated, where the character that follows http:// or
\* https:// is not a line break; the two errors never come together.
C28_UrlErrorByCharacterOnTheLine ==
  NodeValidated("api") =>
    /\ Cardinality(ErrorsFor("url")) <= 1
    /\ IdsFor("url") =
         (IF Blank(nodes[1].data.url) THEN {"1-url-required"}
          ELSE IF ~HasSchemeAndMoreOnItsLine(Stripped(nodes[1].data.url))
            THEN {"1-url-invalid"}
          ELSE {})

\* the url is a space, https:// and a space: trimmed, nothing follows the
\* scheme, and the format error is the only one for the url
C28_Witness ==
  /\ NodeValidated("api")
  /\ nodes[1].data.url = <<" ">> \o HttpsPrefix \o <<" ">>
  /\ IdsFor("url") = {"1-url-invalid"}
  /\ Cardinality(ErrorsFor("url")) = 1

\* the ids of the nodes differ, and so do the ids of the fields of each
\* Form node
IdsAreUnique ==
  /\ \A i, j \in 1..Len(nodes) : i # j => nodes[i].id # nodes[j].id
  /\ \A i \in Places("form") :
       \A f, g \in 1..Len(nodes[i].data.fields) :
         f # g => nodes[i].data.fields[f].id # nodes[i].data.fields[g].id

\* C29: when the node ids are unique and the field ids are unique within
\* each Form node, no two errors of one validateWorkflow result have the same
\* id.
C29_ErrorIdsAreDistinct ==
  (Validated /\ IdsAreUnique) =>
    \A i, j \in 1..Len(validationErrors) :
      i # j => validationErrors[i].id # validationErrors[j].id

\* the same for the graphs whose node ids hold no hyphen
C29_ErrorIdsAreDistinctForPlainIds ==
  (Validated /\ IdsAreUnique /\ nodes # HyphenatedIdNodes) =>
    \A i, j \in 1..Len(validationErrors) :
      i # j => validationErrors[i].id # validationErrors[j].id

\* ------------------------------------------------------------------------
\* The loop of validation and node rewrite (LiveSpec)
\* ------------------------------------------------------------------------

\* a validation pass: a step that is no event of the user, no reload, no step
\* of the clock and no write
Pass == TimersOnly /\ now' = now /\ step'.writes = <<>>

\* the nodes the timer holds carry the errors their own validation gives
\* them: writing these errors into them changes nothing in their serialised form
Settled(timer) ==
  JsonNodes(WithValidationErrors(timer.nodes,
                                 validateWorkflow(timer.nodes, timer.edges).errors))
    = JsonNodes(timer.nodes)

\* no pending validation timer is due after the clock stops
ValidationWithinHorizon == \A timer \in PendingValidations : timer.due <= MaxTime

\* C40: a validation pass leaves at most one validation timer, and only one
\* for nodes that carry their own errors already; the pass of such a timer
\* leaves none.  So after the last mutation at most two passes and rewrites
\* follow, and once only the timers and the clock act, from some point on no
\* validation timer is pending (the clock not stopping before one is due).
C40_ValidationLoopQuiesces ==
  /\ [][Pass =>
          /\ Len(validationTimers') <= 1
          /\ \A i \in 1..Len(validationTimers') : Settled(validationTimers'[i])
          /\ Settled(Head(validationTimers)) => validationTimers' = <<>>]_vars
  /\ ([]ValidationWithinHorizon /\ <>[][TimersOnly]_vars) => <>[](validationTimers = <<>>)

\* the loop has come to rest on an edited canvas with errors: every node
\* carries its errors and no validation timer is pending
C40_Witness ==
  /\ validationTimers = <<>>
  /\ edits >= 1
  /\ nodes # <<>>
  /\ \A i \in 1..Len(nodes) :
       /\ "validationErrors" \in DOMAIN nodes[i].data
       /\ nodes[i].data.validationErrors = ErrorsOfNode(validationErrors, nodes[i].id)
  /\ \E i \in 1..Len(nodes) : nodes[i].data.validationErrors # <<>>

====
